---------------------------- MODULE Spec2Model ----------------------------
(***************************************************************************)
(* Model of the vesper SSH tunnel manager backend (src-tauri/src):         *)
(* ConnectionManager (ssh.rs) with its four RwLock-guarded maps, the       *)
(* forwarding worker tasks it spawns, and DataManager (storage.rs) with    *)
(* the data.json / data.json.tmp / data.json.bak files.                    *)
(*                                                                         *)
(* Every ConnectionManager method is a sequence of steps of the calling    *)
(* task; a step runs from one suspension point (a lock acquisition, a      *)
(* network or file await) to the next.  pc[p] names the step task p takes  *)
(* next, held[p] the lock guards it holds between steps.                   *)
(***************************************************************************)
EXTENDS Integers, Sequences, FiniteSets, TLC

\* ------------------------------------------------------------------ bounds

\* Number of facade calls started in one run.
MaxCalls == 3

\* Per-connection byte-copy subtasks alive at once under one worker.
MaxPumps == 1

\* Keepalive failures in a row that a heartbeat task is followed through.
MaxFailures == 4

\* The failure_count at which a heartbeat task gives up.
FailureLimit == 3

\* Words in a snake_case key, and letters in a word.
MaxWords == 3

MaxWordLen == 2

\* ------------------------------------------------------------ value spaces

\* Tasks that call the facade concurrently (tauri runs commands as tasks).
Procs == {"u1", "u2"}

\* The task start_health_monitoring spawns.
Monitor == "hm"

Tasks == Procs \cup {Monitor}

\* Stand-in for the user-editable fields of an SSHConnection
\* (name, host, port, username, auth_method, password, key_path).
Names == {"a", "b"}

\* An id generate_id() never returned (any string the caller may pass).
NoSuchId == 0

\* Option::None for last_connected, and Some(now).
NoTime == "None"
SomeTime == "Some"

\* AppConfig values: AppConfig::default() and any edited one.
DefaultSettings == "default"

\* An AppConfig the user edited (update_settings); reset_settings saves
\* AppConfig::default().
CustomSettings == "custom"

\* HashMap helpers -----------------------------------------------------------

EmptyMap == [x \in {} |-> 0]

Put(m, k, v) == [x \in (DOMAIN m) \cup {k} |-> IF x = k THEN v ELSE m[x]]

RemoveKeys(m, K) == [x \in (DOMAIN m) \ K |-> m[x]]

Has(m, k) == k \in DOMAIN m

\* -------------------------------------------------------------------- state

VARIABLES
    connections,      \* ConnectionManager.connections : id -> SSHConnection
    tunnels,          \* ConnectionManager.tunnels : id -> SSHTunnel
    ssh_sessions,     \* ConnectionManager.ssh_sessions : connection id -> session
    active_tunnels,   \* ConnectionManager.active_tunnels : tunnel id -> ActiveTunnel
    tasks,            \* spawned forwarding workers : task id -> worker state
    fs,               \* the data directory: data.json, data.json.tmp, data.json.bak
    held,             \* held[p] : set of <<lock, mode>> guards task p holds
    pc,               \* pc[p] : the step task p takes next
    call,             \* call[p] : the facade call task p is in (op, arguments, result)
    loc,              \* loc[p] : local variables of the call
    ids,              \* values generate_id() and the runtime handed out so far
    calls,            \* number of facade calls started
    server,           \* the SSH server the connections point at
    json              \* the JSON value the key-case converters work on

vars == <<connections, tunnels, ssh_sessions, active_tunnels, tasks, fs,
          held, pc, call, loc, ids, calls, server, json>>


\* ------------------------------------------------------------ record types

\* ConnectionStatus and TunnelStatus, as serialized (rename_all = "lowercase").
Disconnected == "disconnected"
Connecting == "connecting"
Connected == "connected"
ConnError == "error"
Inactive == "inactive"
Active == "active"

SSHConnection(id, name, status, last) ==
    [id |-> id, name |-> name, status |-> status, last_connected |-> last]

SSHTunnel(id, cid, status, auto) ==
    [id |-> id, connection_id |-> cid, status |-> status, auto_reconnect |-> auto]

ConnectionResult(success, code) == [success |-> success, error_code |-> code]

\* Result<_, String> of the CRUD methods: Ok / Err(message).
Ok == ConnectionResult(TRUE, "None")
Err(msg) == ConnectionResult(FALSE, msg)

\* Err(String) of a command whose Ok value is a ConnectionResult: the
\* invoke is rejected with the message.
Rejected(msg) == [rejected |-> msg]

\* ----------------------------------------------------------------- storage

AppData(c, t, s) == [connections |-> c, tunnels |-> t, settings |-> s]

AppDataDefault == AppData(EmptyMap, EmptyMap, DefaultSettings)

\* A file that does not exist, one whose write was cut short, and one that
\* holds the whole serialization of a document.
Absent == [exists |-> FALSE, complete |-> FALSE, doc |-> AppDataDefault]
Partial == [exists |-> TRUE, complete |-> FALSE, doc |-> AppDataDefault]
Written(doc) == [exists |-> TRUE, complete |-> TRUE, doc |-> doc]

\* load_data_sync: the default document when data.json does not exist,
\* otherwise the parsed content of data.json (no other file is opened);
\* a content that does not parse is an Err.
load_data_sync(f) == IF f.data.exists THEN f.data.doc ELSE AppDataDefault

load_fails(f) == f.data.exists /\ ~f.data.complete

\* The file-system steps of save_data_sync, in program order.
CreateDir(f) == [f EXCEPT !.dir = TRUE]

CopyToBackup(f) == IF f.data.exists THEN [f EXCEPT !.bak = f.data] ELSE f

\* A write that opens data.json itself instead of the temp file: what
\* save_data_sync would do without the temp file and the rename.
OpenInPlace(f) == [f EXCEPT !.data = Partial]

OpenTemp(f) == [f EXCEPT !.tmp = Partial]

WriteTemp(f, doc) == [f EXCEPT !.tmp = Written(doc)]

RenameTemp(f) == [f EXCEPT !.data = f.tmp, !.tmp = Absent]

RemoveBackup(f) == [f EXCEPT !.bak = Absent]

\* save_data_sync run to completion without a fault.
save_data_sync(f, doc) ==
    RemoveBackup(RenameTemp(WriteTemp(OpenTemp(CopyToBackup(CreateDir(f))), doc)))

\* Documents an earlier run of the program may have left in data.json.
SavedWhileConnected ==
    AppData([x \in {1} |-> SSHConnection(1, "a", Connected, SomeTime)],
            [x \in {1} |-> SSHTunnel(1, 1, Active, TRUE)],
            DefaultSettings)

SavedTwoEndpoints ==
    AppData([x \in {1, 2} |->
                IF x = 1 THEN SSHConnection(1, "a", Disconnected, NoTime)
                         ELSE SSHConnection(2, "b", Disconnected, SomeTime)],
            [x \in {1, 2} |->
                IF x = 1 THEN SSHTunnel(1, 1, Inactive, FALSE)
                         ELSE SSHTunnel(2, 2, Inactive, TRUE)],
            DefaultSettings)

InitialFiles == {Absent, Written(SavedWhileConnected), Written(SavedTwoEndpoints)}

\* --------------------------------------------------------------- task state

\* call[p].live records, for delete_connection, whether the connection had a
\* session and an ActiveTunnel when the call was made (history only: no step
\* reads it).
\* The key files on the disk of the machine.
KeyFiles == {"id_ed25519"}

\* Option<String> values of password and key_path.
Passwords == {"None", "secret"}
KeyPaths == {"None", "id_ed25519", "/does/not/exist"}

\* auth_method, password and key_path of a connection under test; each
\* method comes with its own field only.
Credentials(auth, password, key_path) ==
    [auth_method |-> auth, password |-> password, key_path |-> key_path]

NoCredentials == Credentials("password", "None", "None")

\* A request whose auth_method is neither "password" nor "key".
UnknownAuth == Credentials("telnet", "None", "None")

NoCall == [op |-> "none", id |-> NoSuchId, name |-> "a", auto |-> FALSE,
           live |-> FALSE, result |-> Ok, todo |-> {}, creds |-> NoCredentials]

\* started: the Result of start_all_tunnels_for_connection (TRUE for Ok).
NoLocals == [snap |-> EmptyMap, cur |-> 0, handle |-> 0, started |-> TRUE,
             data |-> AppDataDefault]

\* The server: state is "up", "down" after it was lost, "back" once it is
\* reachable again.  Sessions numbered below epoch were opened before the
\* loss and are dead for good.  lost and calls are history: the connections
\* that were Connected with an Active auto_reconnect tunnel when the server
\* was lost (with no command running), and the number of commands started
\* by then.
ServerUp == [state |-> "up", epoch |-> 0, lost |-> {}, calls |-> 0]

\* ------------------------------------------------- serde_utils: key cases

\* Characters are one-letter strings and a key is a sequence of them.
\* split: str::split('_'), the parts between the underscores, empty ones
\* included.  capitalize: the closure, the first character in upper case,
\* the rest as it is, nothing for an empty part.  collect: the parts in a
\* row.  to_uppercase: char::to_uppercase.
snake_to_camel(snake) ==
    LET to_uppercase(c) == CASE c = "a" -> "A" [] c = "b" -> "B" [] OTHER -> c
        RECURSIVE split(_)
        split(s) ==
            IF \E i \in 1 .. Len(s) : s[i] = "_"
            THEN LET i == CHOOSE i \in 1 .. Len(s) :
                             s[i] = "_" /\ \A j \in 1 .. i - 1 : s[j] # "_"
                 IN  <<SubSeq(s, 1, i - 1)>> \o split(SubSeq(s, i + 1, Len(s)))
            ELSE <<s>>
        capitalize(s) ==
            IF s = <<>> THEN <<>> ELSE <<to_uppercase(Head(s))>> \o Tail(s)
        RECURSIVE collect(_)
        collect(ps) == IF ps = <<>> THEN <<>> ELSE Head(ps) \o collect(Tail(ps))
        parts == split(snake)
    IN  IF Len(parts) = 1
        THEN snake
        ELSE parts[1] \o collect([i \in 1 .. Len(parts) - 1 |-> capitalize(parts[i + 1])])

\* from: the loop from character i on, prev_upper as the character before i
\* left it.  is_uppercase, to_lowercase: the methods of char.
camel_to_snake(camel) ==
    LET is_uppercase(c) == c \in {"A", "B"}
        to_lowercase(c) == CASE c = "A" -> "a" [] c = "B" -> "b" [] OTHER -> c
        RECURSIVE from(_, _)
        from(i, prev_upper) ==
            IF i > Len(camel)
            THEN <<>>
            ELSE LET c == camel[i]
                 IN  (IF is_uppercase(c) /\ i > 1 /\ ~prev_upper THEN <<"_">> ELSE <<>>)
                     \o <<to_lowercase(c)>>
                     \o from(i + 1, is_uppercase(c))
    IN  from(1, FALSE)

\* serde_json::Value: a number, an object (a map from keys to values) or an
\* array (the sequence of its elements).
Object(map) == [object |-> map]

Array(arr) == [array |-> arr]

\* One value out of each set of F.
Choices(F) ==
    {g \in [DOMAIN F -> UNION {F[x] : x \in DOMAIN F}] : \A x \in DOMAIN F : g[x] \in F[x]}

\* The values convert_keys_to_snake can return.  Map::insert replaces the
\* value of a key that is already there, so of the entries whose keys
\* convert to the same key one stays: which one is the order the Map
\* iterates in.
RECURSIVE convert_keys_to_snake(_)
convert_keys_to_snake(value) ==
    CASE "object" \in DOMAIN value ->
           LET map == value.object
               new_keys == {camel_to_snake(key) : key \in DOMAIN map}
               inserted == [snake_key \in new_keys |->
                              UNION {convert_keys_to_snake(map[key]) :
                                       key \in {k \in DOMAIN map : camel_to_snake(k) = snake_key}}]
           IN  {Object(new_map) : new_map \in Choices(inserted)}
      [] "array" \in DOMAIN value ->
           {Array(arr) : arr \in Choices([i \in 1 .. Len(value.array) |->
                                            convert_keys_to_snake(value.array[i])])}
      [] OTHER -> {value}

RECURSIVE convert_keys_to_camel(_)
convert_keys_to_camel(value) ==
    CASE "object" \in DOMAIN value ->
           LET map == value.object
               new_keys == {snake_to_camel(key) : key \in DOMAIN map}
               inserted == [camel_key \in new_keys |->
                              UNION {convert_keys_to_camel(map[key]) :
                                       key \in {k \in DOMAIN map : snake_to_camel(k) = camel_key}}]
           IN  {Object(new_map) : new_map \in Choices(inserted)}
      [] "array" \in DOMAIN value ->
           {Array(arr) : arr \in Choices([i \in 1 .. Len(value.array) |->
                                            convert_keys_to_camel(value.array[i])])}
      [] OTHER -> {value}

\* The snake_case keys: one to MaxWords words of lower-case letters, joined
\* by single underscores.
SnakeKeys ==
    LET Words == UNION {[1 .. n -> {"a", "b"}] : n \in 1 .. MaxWordLen}
        RECURSIVE Joined(_)
        Joined(n) == IF n = 1
                     THEN Words
                     ELSE {k \o <<"_">> \o w : k \in Joined(n - 1), w \in Words}
    IN  UNION {Joined(n) : n \in 1 .. MaxWords}

\* snake_case documents: an object of one field or of two, an object inside
\* an object, and an array of objects.
SnakeValues ==
    LET Number(n) == [number |-> n]
        OfWords(n) == {k \in SnakeKeys : Cardinality({i \in DOMAIN k : k[i] = "_"}) = n - 1}
        flat == {Object(Put(EmptyMap, k, Number(1))) : k \in SnakeKeys}
        pair == {Object(Put(Put(EmptyMap, k, Number(1)), l, Number(2))) :
                   k \in OfWords(MaxWords), l \in OfWords(MaxWords - 1)}
        nest == {Object(Put(EmptyMap, k, v)) : k \in OfWords(1), v \in flat}
    IN  flat \cup pair \cup nest \cup {Array(<<v>>) : v \in flat} \cup {Array(<<>>)}


\* ConnectionManager::new() and a data directory left by an earlier run.
Init ==
    /\ connections = EmptyMap
    /\ tunnels = EmptyMap
    /\ ssh_sessions = EmptyMap
    /\ active_tunnels = EmptyMap
    /\ tasks = EmptyMap
    /\ \E d \in InitialFiles :
         /\ fs = [dir |-> d.exists, data |-> d, tmp |-> Absent, bak |-> Absent]
         /\ ids = [conn |-> Cardinality(DOMAIN load_data_sync(fs).connections) + 1,
                   tunnel |-> Cardinality(DOMAIN load_data_sync(fs).tunnels) + 1,
                   session |-> 1, task |-> 1]
    /\ held = [p \in Tasks |-> {}]
    /\ pc = [p \in Tasks |-> "idle"]
    /\ call = [p \in Tasks |-> NoCall]
    /\ loc = [p \in Tasks |-> NoLocals]
    /\ calls = 0
    /\ server = ServerUp
    /\ json = [stage |-> "none", kind |-> "none", v |-> <<>>, orig |-> <<>>]

\* ------------------------------------------------------------------- locks

\* tokio::sync::RwLock: a write guard excludes every other guard, a read
\* guard excludes write guards.
CanWrite(p, l) == \A q \in Tasks \ {p} : <<l, "w">> \notin held[q] /\ <<l, "r">> \notin held[q]

CanRead(p, l) == \A q \in Tasks \ {p} : <<l, "w">> \notin held[q]

\* One step of task p: next step, guards held afterwards, locals.
Goto(p, next, guards, locals) ==
    /\ pc' = [pc EXCEPT ![p] = next]
    /\ held' = [held EXCEPT ![p] = guards]
    /\ loc' = [loc EXCEPT ![p] = locals]
    /\ UNCHANGED call

\* The call returns r to its caller; guards and locals go out of scope.
Return(p, r) ==
    /\ pc' = [pc EXCEPT ![p] = "done"]
    /\ held' = [held EXCEPT ![p] = {}]
    /\ loc' = [loc EXCEPT ![p] = NoLocals]
    /\ call' = [call EXCEPT ![p].result = r]


\* ----------------------------------------------------------- worker tasks

\* The task tree start_local_forwarding / start_remote_forwarding spawn:
\* the accept-loop task (the JoinHandle kept in the ActiveTunnel), the
\* heartbeat task it spawns when it first runs, and one byte-copy task per
\* accepted connection.  Every one of them holds a clone of the session Arc.
Worker(t, s) ==
    [tunnel |-> t.id, connection_id |-> t.connection_id, session |-> s,
     auto_reconnect |-> t.auto_reconnect,
     accept |-> "spawned", heartbeat |-> FALSE, pumps |-> 0, failure_count |-> 0]

\* A worker none of whose tasks is alive is forgotten.
Compact(ts) ==
    [w \in {x \in DOMAIN ts : \/ ts[x].accept # "stopped"
                              \/ ts[x].heartbeat
                              \/ ts[x].pumps > 0} |-> ts[w]]

\* JoinHandle::abort on the accept-loop tasks H: each is cancelled at its
\* await (the loop only ever awaits); dropping its future drops the
\* heartbeat JoinHandle, which detaches the heartbeat task, and the tasks
\* spawned per connection were detached from the start.
Abort(ts, H) ==
    Compact([w \in DOMAIN ts |->
                IF w \in H THEN [ts[w] EXCEPT !.accept = "stopped"] ELSE ts[w]])

\* The handles stored in the ActiveTunnel entries K.
Handles(K) == {active_tunnels[k].handle : k \in K}

\* get_tunnels_by_connection: the tunnels whose connection_id is id.
TunnelsOf(ts, id) ==
    [t \in {x \in DOMAIN ts : ts[x].connection_id = id} |-> ts[t]]

\* ActiveTunnel entries whose tunnel snapshot belongs to connection id.
ActiveKeys(at, id) == {k \in DOMAIN at : at[k].tunnel.connection_id = id}

ActiveOf(id) == ActiveKeys(active_tunnels, id)


\* ------------------------------------------------------------ facade calls

\* The calls a client can make: arguments from the ids handed out so far
\* and NoSuchId.
Requests ==
    LET cids == 0 .. (ids.conn - 1)
        tids == 0 .. (ids.tunnel - 1)
        R(op, id, name, auto) ==
            [op |-> op, id |-> id, name |-> name, auto |-> auto,
             live |-> /\ op = "delete_connection"
                      /\ Has(ssh_sessions, id)
                      /\ ActiveOf(id) # {},
             result |-> Ok, todo |-> {}, creds |-> NoCredentials]
    IN  {R("initialize", NoSuchId, "a", FALSE)}
        \cup {R("add_connection", NoSuchId, n, FALSE) : n \in Names}
        \cup {R("update_connection", c, n, FALSE) : c \in cids, n \in Names}
        \cup {[R("add_connection", NoSuchId, "a", FALSE) EXCEPT !.creds = UnknownAuth]}
        \cup {[R("update_connection", c, "a", FALSE) EXCEPT !.creds = UnknownAuth] :
                c \in cids}
        \cup {R(op, c, "a", FALSE) :
                op \in {"delete_connection", "connect_ssh", "disconnect_ssh"}, c \in cids}
        \cup {R("add_tunnel", c, "a", b) : c \in cids, b \in BOOLEAN}
        \cup {R("update_tunnel", t, "a", b) : t \in tids, b \in BOOLEAN}
        \cup {R(op, t, "a", FALSE) : op \in {"delete_tunnel", "stop_tunnel"}, t \in tids}

\* The first step of each method.
FirstStep(op) ==
    CASE op = "initialize" -> "in_load"
      [] op = "add_connection" -> "ac_insert"
      [] op = "update_connection" -> "uc_get"
      [] op = "delete_connection" -> "dc_active"
      [] op = "connect_ssh" -> "cn_begin"
      [] op = "disconnect_ssh" -> "ds_conn"
      [] op = "add_tunnel" -> "at_insert"
      [] op = "update_tunnel" -> "ut_update"
      [] op = "delete_tunnel" -> "dt_tun"
      [] op = "stop_tunnel" -> "sp_active"

Quiet(p) == pc[p] \in {"idle", "done"}

\* A client invokes a command; tauri runs it as a task of its own.
Begin(p) ==
    /\ Quiet(p)
    /\ calls < MaxCalls
    /\ \E r \in Requests :
         /\ call' = [call EXCEPT ![p] = r]
         /\ pc' = [pc EXCEPT ![p] = FirstStep(r.op)]
    /\ calls' = calls + 1
    /\ UNCHANGED <<connections, tunnels, ssh_sessions, active_tunnels, tasks, fs,
                   held, loc, ids>>
    /\ UNCHANGED <<server, json>>

\* ------------------------------------------------------- save_to_storage

\* connections.read().await
save_lock_connections(p) ==
    /\ pc[p] = "sv_conn"
    /\ CanRead(p, "connections")
    /\ Goto(p, "sv_load", {<<"connections", "r">>}, loc[p])
    /\ UNCHANGED <<connections, tunnels, ssh_sessions, active_tunnels, tasks, fs,
                   ids, calls>>
    /\ UNCHANGED <<server, json>>

\* tunnels.read().await, then save_connections_and_tunnels up to the end of
\* load_data: the document read back from data.json.
save_load(p) ==
    /\ pc[p] = "sv_load"
    /\ CanRead(p, "tunnels")
    /\ Goto(p, "sv_write", {<<"connections", "r">>, <<"tunnels", "r">>},
            [loc[p] EXCEPT !.data = load_data_sync(fs)])
    /\ UNCHANGED <<connections, tunnels, ssh_sessions, active_tunnels, tasks, fs,
                   ids, calls>>
    /\ UNCHANGED <<server, json>>

\* The document save_connections_and_tunnels hands to save_data.
CatalogDocument(p) == AppData(connections, tunnels, loc[p].data.settings)

\* save_data (save_data_sync on the blocking pool), then both read guards
\* are dropped and the method returns.  connect_ssh and disconnect_ssh
\* return their ConnectionResult, the other methods Ok.
save_write(p) ==
    /\ pc[p] = "sv_write"
    /\ fs' = save_data_sync(fs, CatalogDocument(p))
    /\ Return(p, Ok)
    /\ UNCHANGED <<connections, tunnels, ssh_sessions, active_tunnels, tasks,
                   ids, calls>>
    /\ UNCHANGED <<server, json>>

\* What a save_data_sync that returns Err leaves on the disk: nothing new
\* (the directory cannot be created), or the backup and a temp file that
\* is not written through.  data.json is as it was.
FailedSaves(f) == {f, OpenTemp(CopyToBackup(CreateDir(f)))}

\* A save whose failure is not reported.
save_failed_silent(p) ==
    /\ pc[p] = "sv_write"
    /\ \E f \in FailedSaves(fs) : fs' = f
    /\ Return(p, Ok)
    /\ UNCHANGED <<connections, tunnels, ssh_sessions, active_tunnels, tasks,
                   ids, calls>>
    /\ UNCHANGED <<server, json>>

\* save_data returns Err: save_to_storage passes it on, the mutating
\* methods return it with `?`, connect_ssh and disconnect_ssh log it and
\* return their ConnectionResult.
save_failed(p) ==
    /\ pc[p] = "sv_write"
    /\ \E f \in FailedSaves(fs) : fs' = f
    /\ IF call[p].op \in {"connect_ssh", "disconnect_ssh"}
       THEN Return(p, Ok)
       ELSE Return(p, Err("Failed to write temp file"))
    /\ UNCHANGED <<connections, tunnels, ssh_sessions, active_tunnels, tasks,
                   ids, calls>>
    /\ UNCHANGED <<server, json>>

\* -------------------------------------------- initialize / load_from_storage

initialize_load(p) ==
    /\ pc[p] = "in_load"
    /\ Goto(p, "in_conn", {}, [loc[p] EXCEPT !.data = load_data_sync(fs)])
    /\ UNCHANGED <<connections, tunnels, ssh_sessions, active_tunnels, tasks, fs,
                   ids, calls>>
    /\ UNCHANGED <<server, json>>

initialize_connections(p) ==
    /\ pc[p] = "in_conn"
    /\ CanWrite(p, "connections")
    /\ connections' = loc[p].data.connections
    /\ Goto(p, "in_tun", {<<"connections", "w">>}, loc[p])
    /\ UNCHANGED <<tunnels, ssh_sessions, active_tunnels, tasks, fs, ids, calls>>
    /\ UNCHANGED <<server, json>>

initialize_tunnels(p) ==
    /\ pc[p] = "in_tun"
    /\ CanWrite(p, "tunnels")
    /\ tunnels' = loc[p].data.tunnels
    /\ Return(p, Ok)
    /\ UNCHANGED <<connections, ssh_sessions, active_tunnels, tasks, fs, ids, calls>>
    /\ UNCHANGED <<server, json>>

\* ------------------------------------------------------- connection CRUD

\* An add that keeps the id of the record it is given.
add_connection_supplied(p) ==
    /\ pc[p] = "ac_insert"
    /\ IF call[p].creds.auth_method \in {"password", "key"}
       THEN /\ CanWrite(p, "connections")
            /\ connections' = Put(connections, call[p].id,
                                  SSHConnection(call[p].id, call[p].name, Disconnected, NoTime))
            /\ pc' = [pc EXCEPT ![p] = "sv_conn"]
            /\ UNCHANGED <<held, loc, call, ids>>
       ELSE /\ Return(p, Err("Invalid auth method"))
            /\ UNCHANGED <<connections, ids>>
    /\ UNCHANGED <<tunnels, ssh_sessions, active_tunnels, tasks, fs, calls>>
    /\ UNCHANGED <<server, json>>

\* commands::create_connection matches the auth_method string, then
\* add_connection stores the record under generate_id() with status
\* Disconnected.
add_connection(p) ==
    /\ pc[p] = "ac_insert"
    /\ IF call[p].creds.auth_method \in {"password", "key"}
       THEN /\ CanWrite(p, "connections")
            /\ connections' = Put(connections, ids.conn,
                                  SSHConnection(ids.conn, call[p].name, Disconnected, NoTime))
            /\ ids' = [ids EXCEPT !.conn = @ + 1]
            /\ call' = [call EXCEPT ![p].id = ids.conn]
            /\ pc' = [pc EXCEPT ![p] = "sv_conn"]
            /\ UNCHANGED <<held, loc>>
       ELSE /\ Return(p, Err("Invalid auth method"))
            /\ UNCHANGED <<connections, ids>>
    /\ UNCHANGED <<tunnels, ssh_sessions, active_tunnels, tasks, fs, calls>>
    /\ UNCHANGED <<server, json>>

\* commands::update_connection: get_connection(id) or Err, then the
\* auth_method string is matched; the connection read here supplies status,
\* last_connected and created_at of the record handed to the manager.
update_connection_get(p) ==
    /\ pc[p] = "uc_get"
    /\ CanRead(p, "connections")
    /\ IF ~Has(connections, call[p].id)
       THEN Return(p, Err("Connection not found"))
       ELSE IF call[p].creds.auth_method \notin {"password", "key"}
       THEN Return(p, Err("Invalid auth method"))
       ELSE Goto(p, "uc_update", {},
                 [loc[p] EXCEPT !.snap = Put(EmptyMap, call[p].id, connections[call[p].id])])
    /\ UNCHANGED <<connections, tunnels, ssh_sessions, active_tunnels, tasks, fs,
                   ids, calls>>
    /\ UNCHANGED <<server, json>>

\* An update that stores the record the command built, status and
\* last_connected of the earlier read included.
update_connection_whole(p) ==
    /\ pc[p] = "uc_update"
    /\ CanWrite(p, "connections")
    /\ IF Has(connections, call[p].id)
       THEN /\ connections' = [connections EXCEPT ![call[p].id] =
                                 [loc[p].snap[call[p].id] EXCEPT !.name = call[p].name]]
            /\ Goto(p, "sv_conn", {}, loc[p])
       ELSE /\ UNCHANGED connections
            /\ Return(p, Err("Connection not found"))
    /\ UNCHANGED <<tunnels, ssh_sessions, active_tunnels, tasks, fs, ids, calls>>
    /\ UNCHANGED <<server, json>>

update_connection(p) ==
    /\ pc[p] = "uc_update"
    /\ CanWrite(p, "connections")
    /\ IF Has(connections, call[p].id)
       THEN /\ connections' = [connections EXCEPT ![call[p].id].name = call[p].name]
            /\ Goto(p, "sv_conn", {}, loc[p])
       ELSE /\ UNCHANGED connections
            /\ Return(p, Err("Connection not found"))
    /\ UNCHANGED <<tunnels, ssh_sessions, active_tunnels, tasks, fs, ids, calls>>
    /\ UNCHANGED <<server, json>>

\* Stop all active tunnels for this connection first.
delete_connection_stop(p) ==
    /\ pc[p] = "dc_active"
    /\ CanWrite(p, "active_tunnels")
    /\ active_tunnels' = RemoveKeys(active_tunnels, ActiveOf(call[p].id))
    /\ tasks' = Abort(tasks, Handles(ActiveOf(call[p].id)))
    /\ Goto(p, "dc_conn", {}, loc[p])
    /\ UNCHANGED <<connections, tunnels, ssh_sessions, fs, ids, calls>>
    /\ UNCHANGED <<server, json>>

delete_connection_remove(p) ==
    /\ pc[p] = "dc_conn"
    /\ CanWrite(p, "connections")
    /\ connections' = RemoveKeys(connections, {call[p].id})
    /\ Goto(p, "dc_tun", {}, loc[p])
    /\ UNCHANGED <<tunnels, ssh_sessions, active_tunnels, tasks, fs, ids, calls>>
    /\ UNCHANGED <<server, json>>

\* A retain whose predicate keeps no tunnel at all, instead of the tunnels
\* of the other connections.
delete_connection_retain_none(p) ==
    /\ pc[p] = "dc_tun"
    /\ CanWrite(p, "tunnels")
    /\ tunnels' = EmptyMap
    /\ Goto(p, "sv_conn", {}, loc[p])
    /\ UNCHANGED <<connections, ssh_sessions, active_tunnels, tasks, fs, ids, calls>>
    /\ UNCHANGED <<server, json>>

delete_connection_retain(p) ==
    /\ pc[p] = "dc_tun"
    /\ CanWrite(p, "tunnels")
    /\ tunnels' = RemoveKeys(tunnels, DOMAIN TunnelsOf(tunnels, call[p].id))
    /\ Goto(p, "sv_conn", {}, loc[p])
    /\ UNCHANGED <<connections, ssh_sessions, active_tunnels, tasks, fs, ids, calls>>
    /\ UNCHANGED <<server, json>>


\* ------------------------------------------------------------ connect_ssh

SetStatus(cs, id, st) == IF Has(cs, id) THEN [cs EXCEPT ![id].status = st] ELSE cs

\* A connect_ssh that keeps its connections guard while the test and the
\* session are awaited.
connect_begin_holding(p) ==
    /\ pc[p] = "cn_begin"
    /\ CanWrite(p, "connections")
    /\ IF Has(connections, call[p].id)
       THEN /\ connections' = SetStatus(connections, call[p].id, Connecting)
            /\ Goto(p, "cn_net", {<<"connections", "w">>}, loc[p])
       ELSE /\ UNCHANGED connections
            /\ Return(p, ConnectionResult(FALSE, "None"))
    /\ UNCHANGED <<tunnels, ssh_sessions, active_tunnels, tasks, fs, ids, calls>>
    /\ UNCHANGED <<server, json>>

\* Look the connection up and mark it Connecting.
connect_begin(p) ==
    /\ pc[p] = "cn_begin"
    /\ CanWrite(p, "connections")
    /\ IF Has(connections, call[p].id)
       THEN /\ connections' = SetStatus(connections, call[p].id, Connecting)
            /\ Goto(p, "cn_net", {}, loc[p])
       ELSE /\ UNCHANGED connections
            /\ Return(p, ConnectionResult(FALSE, "None"))
    /\ UNCHANGED <<tunnels, ssh_sessions, active_tunnels, tasks, fs, ids, calls>>
    /\ UNCHANGED <<server, json>>

\* test_ssh_connection reports a failure (any of its error codes, TIMEOUT
\* included): the status becomes Error and the test result is returned.
connect_test_failed(p) ==
    /\ pc[p] = "cn_net"
    /\ CanWrite(p, "connections")
    /\ connections' = SetStatus(connections, call[p].id, ConnError)
    /\ Return(p, ConnectionResult(FALSE, "TEST_FAILED"))
    /\ UNCHANGED <<tunnels, ssh_sessions, active_tunnels, tasks, fs, ids, calls>>
    /\ UNCHANGED <<server, json>>

\* The test passed and establish_ssh_session returned Err.
connect_establish_failed(p) ==
    /\ pc[p] = "cn_net"
    /\ CanWrite(p, "connections")
    /\ connections' = SetStatus(connections, call[p].id, ConnError)
    /\ Return(p, ConnectionResult(FALSE, "CONNECTION_FAILED"))
    /\ UNCHANGED <<tunnels, ssh_sessions, active_tunnels, tasks, fs, ids, calls>>
    /\ UNCHANGED <<server, json>>

\* The test passed and the peer stops answering while establish_ssh_session
\* awaits the handshake or the authentication: no timeout wraps these
\* awaits, the call stays where it is.
connect_peer_silent(p) ==
    /\ pc[p] = "cn_net"
    /\ Goto(p, "cn_hung", {}, loc[p])
    /\ UNCHANGED <<connections, tunnels, ssh_sessions, active_tunnels, tasks, fs,
                   ids, calls>>
    /\ UNCHANGED <<server, json>>

\* The test passed and establish_ssh_session returned a session: it is
\* stored under the connection id (replacing any session stored there).
connect_store_session(p) ==
    /\ pc[p] = "cn_net"
    /\ CanWrite(p, "ssh_sessions")
    /\ ssh_sessions' = Put(ssh_sessions, call[p].id, ids.session)
    /\ ids' = [ids EXCEPT !.session = @ + 1]
    /\ Goto(p, "cn_status", {}, loc[p])
    /\ UNCHANGED <<connections, tunnels, active_tunnels, tasks, fs, calls>>
    /\ UNCHANGED <<server, json>>

\* A status update that leaves last_connected as it was.
connect_mark_connected_unstamped(p) ==
    /\ pc[p] = "cn_status"
    /\ CanWrite(p, "connections")
    /\ connections' = SetStatus(connections, call[p].id, Connected)
    /\ Goto(p, "st_snap", {}, loc[p])
    /\ UNCHANGED <<tunnels, ssh_sessions, active_tunnels, tasks, fs, ids, calls>>
    /\ UNCHANGED <<server, json>>

connect_mark_connected(p) ==
    /\ pc[p] = "cn_status"
    /\ CanWrite(p, "connections")
    /\ connections' =
         IF Has(connections, call[p].id)
         THEN [connections EXCEPT ![call[p].id].status = Connected,
                                  ![call[p].id].last_connected = SomeTime]
         ELSE connections
    /\ Goto(p, "st_snap", {}, loc[p])
    /\ UNCHANGED <<tunnels, ssh_sessions, active_tunnels, tasks, fs, ids, calls>>
    /\ UNCHANGED <<server, json>>

\* ----------------------------------------- start_all_tunnels_for_connection

\* Where the loop over connection_tunnels goes once `left` is what remains:
\* the next iteration, or back in connect_ssh at its save_to_storage.
LoopNext(left) == IF DOMAIN left = {} THEN "sv_conn" ELSE "st_sess"

start_snapshot(p) ==
    /\ pc[p] = "st_snap"
    /\ CanRead(p, "tunnels")
    /\ LET snap == TunnelsOf(tunnels, call[p].id)
       IN  Goto(p, LoopNext(snap), {}, [loc[p] EXCEPT !.snap = snap])
    /\ UNCHANGED <<connections, tunnels, ssh_sessions, active_tunnels, tasks, fs,
                   ids, calls>>
    /\ UNCHANGED <<server, json>>

\* One iteration, for tunnel t, when no session is stored: nothing is done.
start_no_session(p, t) ==
    /\ pc[p] = "st_sess"
    /\ t \in DOMAIN loc[p].snap
    /\ CanRead(p, "ssh_sessions")
    /\ ~Has(ssh_sessions, call[p].id)
    /\ LET left == RemoveKeys(loc[p].snap, {t})
       IN  Goto(p, LoopNext(left), {}, [loc[p] EXCEPT !.snap = left])
    /\ UNCHANGED <<connections, tunnels, ssh_sessions, active_tunnels, tasks, fs,
                   ids, calls>>
    /\ UNCHANGED <<server, json>>

\* One iteration, for tunnel t: the session Arc is cloned and
\* start_local_forwarding / start_remote_forwarding binds the listener and
\* spawns the worker.
start_forwarding(p, t) ==
    /\ pc[p] = "st_sess"
    /\ t \in DOMAIN loc[p].snap
    /\ CanRead(p, "ssh_sessions")
    /\ Has(ssh_sessions, call[p].id)
    /\ tasks' = Put(tasks, ids.task, Worker(loc[p].snap[t], ssh_sessions[call[p].id]))
    /\ ids' = [ids EXCEPT !.task = @ + 1]
    /\ Goto(p, "st_active", {}, [loc[p] EXCEPT !.cur = t, !.handle = ids.task])
    /\ UNCHANGED <<connections, tunnels, ssh_sessions, active_tunnels, fs, calls>>
    /\ UNCHANGED <<server, json>>

\* One iteration, for tunnel t: the bind (or the remote forward-listen)
\* fails, `?` returns the error out of the loop, connect_ssh logs it.
start_bind_failed(p, t) ==
    /\ pc[p] = "st_sess"
    /\ t \in DOMAIN loc[p].snap
    /\ CanRead(p, "ssh_sessions")
    /\ Has(ssh_sessions, call[p].id)
    /\ Goto(p, "sv_conn", {}, [NoLocals EXCEPT !.started = FALSE])
    /\ UNCHANGED <<connections, tunnels, ssh_sessions, active_tunnels, tasks, fs,
                   ids, calls>>
    /\ UNCHANGED <<server, json>>

\* active_tunnels.insert(tunnel_id, ActiveTunnel { tunnel, handle })
start_register(p) ==
    /\ pc[p] = "st_active"
    /\ CanWrite(p, "active_tunnels")
    /\ active_tunnels' = Put(active_tunnels, loc[p].cur,
                             [tunnel |-> loc[p].snap[loc[p].cur],
                              handle |-> loc[p].handle])
    /\ Goto(p, "st_status", {}, loc[p])
    /\ UNCHANGED <<connections, tunnels, ssh_sessions, tasks, fs, ids, calls>>
    /\ UNCHANGED <<server, json>>

SetTunnelStatus(ts, K, st) ==
    [t \in DOMAIN ts |-> IF t \in K THEN [ts[t] EXCEPT !.status = st] ELSE ts[t]]

start_mark_active(p) ==
    /\ pc[p] = "st_status"
    /\ CanWrite(p, "tunnels")
    /\ tunnels' = SetTunnelStatus(tunnels, {loc[p].cur}, Active)
    /\ LET left == RemoveKeys(loc[p].snap, {loc[p].cur})
       IN  Goto(p, LoopNext(left), {},
                [loc[p] EXCEPT !.snap = left, !.cur = 0, !.handle = 0])
    /\ UNCHANGED <<connections, ssh_sessions, active_tunnels, tasks, fs, ids, calls>>
    /\ UNCHANGED <<server, json>>

\* --------------------------------------------------------- disconnect_ssh

disconnect_lock_connections(p) ==
    /\ pc[p] = "ds_conn"
    /\ CanWrite(p, "connections")
    /\ Goto(p, "ds_sess", {<<"connections", "w">>}, loc[p])
    /\ UNCHANGED <<connections, tunnels, ssh_sessions, active_tunnels, tasks, fs,
                   ids, calls>>
    /\ UNCHANGED <<server, json>>

disconnect_lock_sessions(p) ==
    /\ pc[p] = "ds_sess"
    /\ CanWrite(p, "ssh_sessions")
    /\ IF Has(connections, call[p].id)
       THEN /\ connections' = SetStatus(connections, call[p].id, Disconnected)
            /\ Goto(p, "ds_active",
                    {<<"connections", "w">>, <<"ssh_sessions", "w">>}, loc[p])
       ELSE /\ UNCHANGED connections
            /\ Return(p, ConnectionResult(FALSE, "NOT_FOUND"))
    /\ UNCHANGED <<tunnels, ssh_sessions, active_tunnels, tasks, fs, ids, calls>>
    /\ UNCHANGED <<server, json>>

disconnect_stop_tunnels(p) ==
    /\ pc[p] = "ds_active"
    /\ CanWrite(p, "active_tunnels")
    /\ active_tunnels' = RemoveKeys(active_tunnels, ActiveOf(call[p].id))
    /\ tasks' = Abort(tasks, Handles(ActiveOf(call[p].id)))
    /\ Goto(p, "ds_snap", held[p], loc[p])
    /\ UNCHANGED <<connections, tunnels, ssh_sessions, fs, ids, calls>>
    /\ UNCHANGED <<server, json>>

\* get_tunnels_by_connection; with no tunnel to update the session is
\* removed right away and both guards are dropped.
disconnect_snapshot(p) ==
    /\ pc[p] = "ds_snap"
    /\ CanRead(p, "tunnels")
    /\ LET snap == TunnelsOf(tunnels, call[p].id)
       IN  IF DOMAIN snap = {}
           THEN /\ ssh_sessions' = RemoveKeys(ssh_sessions, {call[p].id})
                /\ Goto(p, "sv_conn", {}, loc[p])
           ELSE /\ UNCHANGED ssh_sessions
                /\ Goto(p, "ds_tun", held[p], [loc[p] EXCEPT !.snap = snap])
    /\ UNCHANGED <<connections, tunnels, active_tunnels, tasks, fs, ids, calls>>
    /\ UNCHANGED <<server, json>>

\* The tunnels of the snapshot become Inactive, the session is removed,
\* the connections and ssh_sessions guards are dropped.
disconnect_mark_inactive(p) ==
    /\ pc[p] = "ds_tun"
    /\ CanWrite(p, "tunnels")
    /\ tunnels' = SetTunnelStatus(tunnels, DOMAIN loc[p].snap, Inactive)
    /\ ssh_sessions' = RemoveKeys(ssh_sessions, {call[p].id})
    /\ Goto(p, "sv_conn", {}, NoLocals)
    /\ UNCHANGED <<connections, active_tunnels, tasks, fs, ids, calls>>
    /\ UNCHANGED <<server, json>>

\* ------------------------------------------------------------ tunnel CRUD

add_tunnel(p) ==
    /\ pc[p] = "at_insert"
    /\ CanWrite(p, "tunnels")
    /\ tunnels' = Put(tunnels, ids.tunnel,
                      SSHTunnel(ids.tunnel, call[p].id, Inactive, call[p].auto))
    /\ ids' = [ids EXCEPT !.tunnel = @ + 1]
    /\ pc' = [pc EXCEPT ![p] = "sv_conn"]
    /\ UNCHANGED <<connections, ssh_sessions, active_tunnels, tasks, fs, held, loc,
                   call, calls>>
    /\ UNCHANGED <<server, json>>

update_tunnel(p) ==
    /\ pc[p] = "ut_update"
    /\ CanWrite(p, "tunnels")
    /\ IF Has(tunnels, call[p].id)
       THEN /\ tunnels' = [tunnels EXCEPT ![call[p].id].auto_reconnect = call[p].auto]
            /\ Goto(p, "sv_conn", {}, loc[p])
       ELSE /\ UNCHANGED tunnels
            /\ Return(p, Err("Tunnel not found"))
    /\ UNCHANGED <<connections, ssh_sessions, active_tunnels, tasks, fs, ids, calls>>
    /\ UNCHANGED <<server, json>>

delete_tunnel_lock(p) ==
    /\ pc[p] = "dt_tun"
    /\ CanWrite(p, "tunnels")
    /\ Goto(p, "dt_active", {<<"tunnels", "w">>}, loc[p])
    /\ UNCHANGED <<connections, tunnels, ssh_sessions, active_tunnels, tasks, fs,
                   ids, calls>>
    /\ UNCHANGED <<server, json>>

\* A delete that reports a tunnel it does not find as an error.
delete_tunnel_remove_strict(p) ==
    /\ pc[p] = "dt_active"
    /\ CanWrite(p, "active_tunnels")
    /\ active_tunnels' = RemoveKeys(active_tunnels, {call[p].id})
    /\ tasks' = Abort(tasks, Handles({call[p].id} \cap DOMAIN active_tunnels))
    /\ tunnels' = RemoveKeys(tunnels, {call[p].id})
    /\ IF Has(tunnels, call[p].id)
       THEN Goto(p, "sv_conn", {}, loc[p])
       ELSE Return(p, Err("NOT_FOUND"))
    /\ UNCHANGED <<connections, ssh_sessions, fs, ids, calls>>
    /\ UNCHANGED <<server, json>>

delete_tunnel_remove(p) ==
    /\ pc[p] = "dt_active"
    /\ CanWrite(p, "active_tunnels")
    /\ active_tunnels' = RemoveKeys(active_tunnels, {call[p].id})
    /\ tasks' = Abort(tasks, Handles({call[p].id} \cap DOMAIN active_tunnels))
    /\ tunnels' = RemoveKeys(tunnels, {call[p].id})
    /\ Goto(p, "sv_conn", {}, loc[p])
    /\ UNCHANGED <<connections, ssh_sessions, fs, ids, calls>>
    /\ UNCHANGED <<server, json>>

stop_tunnel_abort(p) ==
    /\ pc[p] = "sp_active"
    /\ CanWrite(p, "active_tunnels")
    /\ active_tunnels' = RemoveKeys(active_tunnels, {call[p].id})
    /\ tasks' = Abort(tasks, Handles({call[p].id} \cap DOMAIN active_tunnels))
    /\ Goto(p, "sp_tun", {<<"active_tunnels", "w">>}, loc[p])
    /\ UNCHANGED <<connections, tunnels, ssh_sessions, fs, ids, calls>>
    /\ UNCHANGED <<server, json>>

stop_tunnel_mark(p) ==
    /\ pc[p] = "sp_tun"
    /\ CanWrite(p, "tunnels")
    /\ tunnels' = SetTunnelStatus(tunnels, {call[p].id}, Inactive)
    /\ Goto(p, "sv_conn", {}, loc[p])
    /\ UNCHANGED <<connections, ssh_sessions, active_tunnels, tasks, fs, ids, calls>>
    /\ UNCHANGED <<server, json>>

\* ------------------------------------------------- the spawned worker tasks

\* The accept-loop task is polled for the first time: it spawns its
\* heartbeat task and enters the select over listener.accept().
worker_start(w) ==
    /\ w \in DOMAIN tasks
    /\ tasks[w].accept = "spawned"
    /\ tasks' = [tasks EXCEPT ![w].accept = "running", ![w].heartbeat = TRUE,
                              ![w].failure_count = 0]
    /\ UNCHANGED <<connections, tunnels, ssh_sessions, active_tunnels, fs,
                   held, pc, call, loc, ids, calls>>
    /\ UNCHANGED <<server, json>>

\* listener.accept() returns a connection: a byte-copy task is spawned.
worker_accept(w) ==
    /\ w \in DOMAIN tasks
    /\ tasks[w].accept = "running"
    /\ tasks[w].pumps < MaxPumps
    /\ tasks' = [tasks EXCEPT ![w].pumps = @ + 1]
    /\ UNCHANGED <<connections, tunnels, ssh_sessions, active_tunnels, fs,
                   held, pc, call, loc, ids, calls>>
    /\ UNCHANGED <<server, json>>

\* copy_bidirectional ends (EOF or error) and the byte-copy task with it.
pump_end(w) ==
    /\ w \in DOMAIN tasks
    /\ tasks[w].pumps > 0
    /\ tasks' = Compact([tasks EXCEPT ![w].pumps = @ - 1])
    /\ UNCHANGED <<connections, tunnels, ssh_sessions, active_tunnels, fs,
                   held, pc, call, loc, ids, calls>>
    /\ UNCHANGED <<server, json>>

\* ------------------------------------- DataManager::save_data, step by step

\* Documents handed to save_data.
StorageDocs == {AppDataDefault, SavedWhileConnected, SavedTwoEndpoints}

\* save_data(doc) is called, or initialize; one call at a time.
storage_begin(p) ==
    /\ \A q \in Procs : Quiet(q)
    /\ calls < MaxCalls
    /\ calls' = calls + 1
    /\ \/ \E d \in StorageDocs :
            /\ call' = [call EXCEPT ![p] = [NoCall EXCEPT !.op = "save_data"]]
            /\ pc' = [pc EXCEPT ![p] = "fs_mkdir"]
            /\ loc' = [loc EXCEPT ![p] = [NoLocals EXCEPT !.data = d]]
       \/ /\ call' = [call EXCEPT ![p] = [NoCall EXCEPT !.op = "initialize"]]
          /\ pc' = [pc EXCEPT ![p] = "in_load"]
          /\ loc' = [loc EXCEPT ![p] = NoLocals]
    /\ UNCHANGED <<connections, tunnels, ssh_sessions, active_tunnels, tasks, fs,
                   held, ids>>
    /\ UNCHANGED <<server, json>>

\* create_dir_all when the data directory does not exist
storage_create_dir(p) ==
    /\ pc[p] = "fs_mkdir"
    /\ fs' = IF fs.dir THEN fs ELSE CreateDir(fs)
    /\ Goto(p, "fs_backup", {}, loc[p])
    /\ UNCHANGED <<connections, tunnels, ssh_sessions, active_tunnels, tasks, ids, calls>>
    /\ UNCHANGED <<server, json>>

\* fs::copy(data.json, data.json.bak) when data.json exists
storage_backup(p) ==
    /\ pc[p] = "fs_backup"
    /\ fs' = CopyToBackup(fs)
    /\ Goto(p, "fs_open", {}, loc[p])
    /\ UNCHANGED <<connections, tunnels, ssh_sessions, active_tunnels, tasks, ids, calls>>
    /\ UNCHANGED <<server, json>>

\* the copy fails part-way; the warning is printed and the save goes on
storage_backup_failed(p) ==
    /\ pc[p] = "fs_backup"
    /\ fs.data.exists
    /\ fs' = [fs EXCEPT !.bak = Partial]
    /\ Goto(p, "fs_open", {}, loc[p])
    /\ UNCHANGED <<connections, tunnels, ssh_sessions, active_tunnels, tasks, ids, calls>>
    /\ UNCHANGED <<server, json>>

\* fs::write(temp_path, content): the file is created or truncated ...
\* loc[p].handle follows the open file: 0 while it has the temp path, 1 once
\* a rename of another save made it data.json, 2 once it has no name.
storage_open_temp(p) ==
    /\ pc[p] = "fs_open"
    /\ fs' = OpenTemp(fs)
    /\ Goto(p, "fs_write", {}, [loc[p] EXCEPT !.handle = 0])
    /\ UNCHANGED <<connections, tunnels, ssh_sessions, active_tunnels, tasks, ids, calls>>
    /\ UNCHANGED <<server, json>>

\* ... and the content written, from offset 0 of the open file: over what
\* another save wrote there since the truncation, which leaves the whole
\* content or, when the other content is longer, its tail after it.
storage_write_temp(p) ==
    /\ pc[p] = "fs_write"
    /\ LET doc == loc[p].data
           file == IF loc[p].handle = 0 THEN fs.tmp ELSE fs.data
           over == file.exists /\ file.complete /\ file.doc # doc
       IN  \/ /\ loc[p].handle = 0
              /\ fs' = WriteTemp(fs, doc)
           \/ /\ loc[p].handle = 0
              /\ over
              /\ fs' = [fs EXCEPT !.tmp = Partial]
           \/ /\ loc[p].handle = 1
              /\ fs' = [fs EXCEPT !.data = Written(doc)]
           \/ /\ loc[p].handle = 1
              /\ over
              /\ fs' = [fs EXCEPT !.data = Partial]
           \/ /\ loc[p].handle = 2
              /\ UNCHANGED fs
    /\ Goto(p, "fs_rename", {}, [loc[p] EXCEPT !.handle = 0])
    /\ UNCHANGED <<connections, tunnels, ssh_sessions, active_tunnels, tasks, ids, calls>>
    /\ UNCHANGED <<server, json>>

\* fs::rename(temp_path, file_path); a file another save has open goes on
\* under its new name, and the file that was data.json loses its name.
storage_rename(p) ==
    /\ pc[p] = "fs_rename"
    /\ IF fs.tmp.exists
       THEN /\ fs' = RenameTemp(fs)
            /\ pc' = [pc EXCEPT ![p] = "fs_rmbak"]
            /\ loc' = [r \in Tasks |->
                         IF r # p /\ pc[r] = "fs_write"
                         THEN [loc[r] EXCEPT !.handle = IF @ = 0 THEN 1 ELSE 2]
                         ELSE loc[r]]
            /\ UNCHANGED <<held, call>>
       ELSE /\ UNCHANGED fs
            /\ Return(p, Err("Failed to move temp file"))
    /\ UNCHANGED <<connections, tunnels, ssh_sessions, active_tunnels, tasks, ids, calls>>
    /\ UNCHANGED <<server, json>>

\* fs::remove_file(backup_path), its result ignored
storage_remove_backup(p) ==
    /\ pc[p] = "fs_rmbak"
    /\ fs' = RemoveBackup(fs)
    /\ Return(p, Ok)
    /\ UNCHANGED <<connections, tunnels, ssh_sessions, active_tunnels, tasks, ids, calls>>
    /\ UNCHANGED <<server, json>>

\* DataManager::save_connections_and_tunnels(connections, tunnels), called by
\* save_to_storage, or DataManager::save_settings(settings), called by
\* update_settings and reset_settings.  Each call makes its own DataManager
\* and takes no lock of the storage, so a call starts whatever the other
\* task is doing.  loc[p].data holds the arguments until the load.
data_manager_call(p) ==
    /\ Quiet(p)
    /\ calls < MaxCalls
    /\ calls' = calls + 1
    /\ \/ \E d \in StorageDocs :
            /\ call' = [call EXCEPT ![p] =
                          [NoCall EXCEPT !.op = "save_connections_and_tunnels"]]
            /\ loc' = [loc EXCEPT ![p] = [NoLocals EXCEPT !.data = d]]
       \/ \E s \in {DefaultSettings, CustomSettings} :
            /\ call' = [call EXCEPT ![p] = [NoCall EXCEPT !.op = "save_settings"]]
            /\ loc' = [loc EXCEPT ![p] =
                         [NoLocals EXCEPT !.data = AppData(EmptyMap, EmptyMap, s)]]
    /\ pc' = [pc EXCEPT ![p] = "dm_load"]
    /\ UNCHANGED <<connections, tunnels, ssh_sessions, active_tunnels, tasks, fs,
                   held, ids>>
    /\ UNCHANGED <<server, json>>

\* let mut data = self.load_data().await?; then the fields the call is about
\* are replaced in data, and save_data(data) begins.
data_manager_load(p) ==
    /\ pc[p] = "dm_load"
    /\ IF load_fails(fs)
       THEN Return(p, Err("Failed to parse data file"))
       ELSE LET data == load_data_sync(fs)
                arg == loc[p].data
            IN  Goto(p, "fs_mkdir", {},
                     [loc[p] EXCEPT !.data =
                        IF call[p].op = "save_settings"
                        THEN AppData(data.connections, data.tunnels, arg.settings)
                        ELSE AppData(arg.connections, arg.tunnels, data.settings)])
    /\ UNCHANGED <<connections, tunnels, ssh_sessions, active_tunnels, tasks, fs,
                   ids, calls>>
    /\ UNCHANGED <<server, json>>

\* The process is killed and started again: memory is lost, files stay.
Crash ==
    /\ \E p \in Procs : ~Quiet(p)
    /\ connections' = EmptyMap
    /\ tunnels' = EmptyMap
    /\ ssh_sessions' = EmptyMap
    /\ active_tunnels' = EmptyMap
    /\ tasks' = EmptyMap
    /\ held' = [p \in Tasks |-> {}]
    /\ pc' = [p \in Tasks |-> "idle"]
    /\ call' = [p \in Tasks |-> NoCall]
    /\ loc' = [p \in Tasks |-> NoLocals]
    /\ UNCHANGED <<fs, ids, calls>>
    /\ UNCHANGED <<server, json>>

\* ------------------------------------------------------------ the server

\* A session answers while the server it was opened on is reachable.
Alive(s) == server.state # "down" /\ s >= server.epoch

\* The tunnels of connection id that ask for auto-reconnect.
AutoTunnels(ts, id) ==
    {t \in DOMAIN ts : ts[t].connection_id = id /\ ts[t].auto_reconnect}

\* Connections that are Connected with a session and an Active worker of an
\* auto_reconnect tunnel.
ConnectedWithAuto ==
    {e \in DOMAIN connections :
        /\ connections[e].status = Connected
        /\ Has(ssh_sessions, e)
        /\ \E t \in AutoTunnels(tunnels, e) :
             tunnels[t].status = Active /\ Has(active_tunnels, t)}

\* The server goes away while sessions are open: they are dead from now on.
server_lost ==
    /\ server.state = "up"
    /\ DOMAIN ssh_sessions # {}
    /\ server' = [state |-> "down", epoch |-> ids.session,
                  lost |-> IF \A p \in Procs : Quiet(p)
                           THEN ConnectedWithAuto ELSE {},
                  calls |-> calls]
    /\ UNCHANGED <<connections, tunnels, ssh_sessions, active_tunnels, tasks, fs,
                   held, pc, call, loc, ids, calls, json>>

\* The server is started again and stays reachable.
server_back ==
    /\ server.state = "down"
    /\ server' = [server EXCEPT !.state = "back"]
    /\ UNCHANGED <<connections, tunnels, ssh_sessions, active_tunnels, tasks, fs,
                   held, pc, call, loc, ids, calls, json>>

\* --------------------------------------------- start_health_monitoring

\* interval.tick() fires: the ids of the Connected connections are
\* collected under the connections read guard.
monitor_tick ==
    /\ pc[Monitor] = "idle"
    /\ CanRead(Monitor, "connections")
    /\ call' = [call EXCEPT ![Monitor] =
                  [NoCall EXCEPT
                     !.op = "check_connection_health",
                     !.todo = {e \in DOMAIN connections :
                                 connections[e].status = Connected}]]
    /\ pc' = [pc EXCEPT ![Monitor] = "hm_next"]
    /\ UNCHANGED <<connections, tunnels, ssh_sessions, active_tunnels, tasks, fs,
                   held, loc, ids, calls, server, json>>

\* The loop over connected_ids is through: back to interval.tick().
monitor_rest ==
    /\ pc[Monitor] = "hm_next"
    /\ call[Monitor].todo = {}
    /\ call' = [call EXCEPT ![Monitor] = NoCall]
    /\ pc' = [pc EXCEPT ![Monitor] = "idle"]
    /\ UNCHANGED <<connections, tunnels, ssh_sessions, active_tunnels, tasks, fs,
                   held, loc, ids, calls, server, json>>

\* check_connection_health(e) for the next e of connected_ids: with a
\* session in ssh_sessions the Arc is cloned for the probe, without one the
\* method returns.
monitor_check(e) ==
    /\ pc[Monitor] = "hm_next"
    /\ e \in call[Monitor].todo
    /\ CanRead(Monitor, "ssh_sessions")
    /\ call' = [call EXCEPT ![Monitor].id = e, ![Monitor].todo = @ \ {e}]
    /\ IF Has(ssh_sessions, e)
       THEN /\ pc' = [pc EXCEPT ![Monitor] = "hm_probe"]
            /\ loc' = [loc EXCEPT ![Monitor].cur = ssh_sessions[e]]
       ELSE UNCHANGED <<pc, loc>>
    /\ UNCHANGED <<connections, tunnels, ssh_sessions, active_tunnels, tasks, fs,
                   held, ids, calls, server, json>>

\* channel_session() and exec("true") both answer.
monitor_probe_ok ==
    /\ pc[Monitor] = "hm_probe"
    /\ Alive(loc[Monitor].cur)
    /\ pc' = [pc EXCEPT ![Monitor] = "hm_next"]
    /\ loc' = [loc EXCEPT ![Monitor] = NoLocals]
    /\ UNCHANGED <<connections, tunnels, ssh_sessions, active_tunnels, tasks, fs,
                   held, call, ids, calls, server, json>>

\* channel_session() returns Err: the failure is logged and the method
\* returns.
monitor_probe_no_channel ==
    /\ pc[Monitor] = "hm_probe"
    /\ ~Alive(loc[Monitor].cur)
    /\ pc' = [pc EXCEPT ![Monitor] = "hm_next"]
    /\ loc' = [loc EXCEPT ![Monitor] = NoLocals]
    /\ UNCHANGED <<connections, tunnels, ssh_sessions, active_tunnels, tasks, fs,
                   held, call, ids, calls, server, json>>

\* The channel opens and exec("true") returns Err.
monitor_probe_exec_failed ==
    /\ pc[Monitor] = "hm_probe"
    /\ ~Alive(loc[Monitor].cur)
    /\ pc' = [pc EXCEPT ![Monitor] = "hm_conn"]
    /\ loc' = [loc EXCEPT ![Monitor] = NoLocals]
    /\ UNCHANGED <<connections, tunnels, ssh_sessions, active_tunnels, tasks, fs,
                   held, call, ids, calls, server, json>>

\* connections.get(id) after the failed probe.
monitor_read_connection ==
    /\ pc[Monitor] = "hm_conn"
    /\ CanRead(Monitor, "connections")
    /\ pc' = [pc EXCEPT ![Monitor] =
                IF Has(connections, call[Monitor].id) THEN "hm_tun" ELSE "hm_next"]
    /\ UNCHANGED <<connections, tunnels, ssh_sessions, active_tunnels, tasks, fs,
                   held, call, loc, ids, calls, server, json>>

\* A monitor that reconnects whatever the tunnels ask for.
monitor_read_tunnels_any ==
    /\ pc[Monitor] = "hm_tun"
    /\ CanRead(Monitor, "tunnels")
    /\ call' = [call EXCEPT ![Monitor].op = "disconnect_ssh"]
    /\ pc' = [pc EXCEPT ![Monitor] = "ds_conn"]
    /\ UNCHANGED <<connections, tunnels, ssh_sessions, active_tunnels, tasks, fs,
                   held, loc, ids, calls, server, json>>

\* get_tunnels_by_connection and has_auto_reconnect: with an auto_reconnect
\* tunnel the monitor calls disconnect_ssh(id).
monitor_read_tunnels ==
    /\ pc[Monitor] = "hm_tun"
    /\ CanRead(Monitor, "tunnels")
    /\ IF AutoTunnels(tunnels, call[Monitor].id) # {}
       THEN /\ call' = [call EXCEPT ![Monitor].op = "disconnect_ssh"]
            /\ pc' = [pc EXCEPT ![Monitor] = "ds_conn"]
       ELSE /\ pc' = [pc EXCEPT ![Monitor] = "hm_next"]
            /\ UNCHANGED call
    /\ UNCHANGED <<connections, tunnels, ssh_sessions, active_tunnels, tasks, fs,
                   held, loc, ids, calls, server, json>>

\* disconnect_ssh has returned and the 5 second sleep is over: the monitor
\* calls connect_ssh(id).
monitor_sleep ==
    /\ pc[Monitor] = "done"
    /\ call[Monitor].op = "disconnect_ssh"
    /\ call' = [call EXCEPT ![Monitor].op = "connect_ssh"]
    /\ pc' = [pc EXCEPT ![Monitor] = "cn_begin"]
    /\ UNCHANGED <<connections, tunnels, ssh_sessions, active_tunnels, tasks, fs,
                   held, loc, ids, calls, server, json>>

\* connect_ssh has returned: its result is logged and the loop goes on.
monitor_reconnected ==
    /\ pc[Monitor] = "done"
    /\ call[Monitor].op = "connect_ssh"
    /\ call' = [call EXCEPT ![Monitor].op = "check_connection_health"]
    /\ pc' = [pc EXCEPT ![Monitor] = "hm_next"]
    /\ UNCHANGED <<connections, tunnels, ssh_sessions, active_tunnels, tasks, fs,
                   held, loc, ids, calls, server, json>>

\* ------------------------------------------------- testing a connection

\* The AsyncSession a test builds; it lives in the future of the test only.
TestSession == -1

\* The error an unreachable or unwilling host makes TcpStream::connect
\* return.
TcpErrors ==
    {"CONNECTION_REFUSED", "CONNECTION_TIMEOUT", "HOST_UNREACHABLE",
     "TCP_CONNECTION_ERROR"}

\* The test commands a client can invoke: test_connection on an id, with
\* the credentials stored for it, and test_connection_data on the fields
\* of a form, whose auth_method is any string.
TestRequests ==
    LET creds(methods) ==
            {Credentials("password", w, "None") : w \in Passwords}
            \cup {Credentials("key", "None", k) : k \in KeyPaths}
            \cup {Credentials(m, "None", "None") : m \in methods \ {"password", "key"}}
    IN  {[NoCall EXCEPT !.op = "test_connection", !.id = c, !.creds = k] :
            c \in 0 .. (ids.conn - 1), k \in creds({"password", "key"})}
        \cup {[NoCall EXCEPT !.op = "test_connection_data", !.creds = k] :
                k \in creds({"password", "key", "telnet"})}

TestBegin(p) ==
    /\ Quiet(p)
    /\ calls < MaxCalls
    /\ \E r \in TestRequests :
         /\ call' = [call EXCEPT ![p] = r]
         /\ pc' = [pc EXCEPT ![p] =
                     IF r.op = "test_connection" THEN "tc_get" ELSE "td_auth"]
    /\ calls' = calls + 1
    /\ UNCHANGED <<connections, tunnels, ssh_sessions, active_tunnels, tasks, fs,
                   held, loc, ids, server, json>>

\* commands::test_connection: get_connection(id) or Err.
test_connection_get(p) ==
    /\ pc[p] = "tc_get"
    /\ CanRead(p, "connections")
    /\ IF Has(connections, call[p].id)
       THEN Goto(p, "ts_key", {}, loc[p])
       ELSE Return(p, Rejected("Connection not found"))
    /\ UNCHANGED <<connections, tunnels, ssh_sessions, active_tunnels, tasks, fs,
                   ids, calls, server, json>>

\* commands::test_connection_data: the auth_method string is matched.
test_connection_data_auth(p) ==
    /\ pc[p] = "td_auth"
    /\ IF call[p].creds.auth_method \in {"password", "key"}
       THEN Goto(p, "ts_key", {}, loc[p])
       ELSE Return(p, Rejected("Invalid auth method"))
    /\ UNCHANGED <<connections, tunnels, ssh_sessions, active_tunnels, tasks, fs,
                   ids, calls, server, json>>

\* A test that opens the socket without looking at the key first.
test_validate_key_late(p) ==
    /\ pc[p] = "ts_key"
    /\ Goto(p, "ts_tcp", {}, loc[p])
    /\ UNCHANGED <<connections, tunnels, ssh_sessions, active_tunnels, tasks, fs,
                   ids, calls, server, json>>

\* test_ssh_connection_async: the key path is validated first.
test_validate_key(p) ==
    /\ pc[p] = "ts_key"
    /\ LET c == call[p].creds
       IN  IF c.auth_method # "key"
           THEN Goto(p, "ts_tcp", {}, loc[p])
           ELSE IF c.key_path = "None"
           THEN Return(p, ConnectionResult(FALSE, "KEY_PATH_MISSING"))
           ELSE IF c.key_path \notin KeyFiles
           THEN Return(p, ConnectionResult(FALSE, "KEY_FILE_NOT_FOUND"))
           ELSE Goto(p, "ts_tcp", {}, loc[p])
    /\ UNCHANGED <<connections, tunnels, ssh_sessions, active_tunnels, tasks, fs,
                   ids, calls, server, json>>

\* TcpStream::connect returns Err.
test_tcp_failed(p) ==
    /\ pc[p] = "ts_tcp"
    /\ \E code \in TcpErrors : Return(p, ConnectionResult(FALSE, code))
    /\ UNCHANGED <<connections, tunnels, ssh_sessions, active_tunnels, tasks, fs,
                   ids, calls, server, json>>

\* The socket is open and AsyncSession::new returns Err.
test_session_failed(p) ==
    /\ pc[p] = "ts_tcp"
    /\ Return(p, ConnectionResult(FALSE, "SSH_SESSION_ERROR"))
    /\ UNCHANGED <<connections, tunnels, ssh_sessions, active_tunnels, tasks, fs,
                   ids, calls, server, json>>

\* A test that registers the session it opened under the id it tests.
test_session_kept(p) ==
    /\ pc[p] = "ts_tcp"
    /\ ssh_sessions' = Put(ssh_sessions, call[p].id, TestSession)
    /\ Goto(p, "ts_hs", {}, [loc[p] EXCEPT !.cur = TestSession])
    /\ UNCHANGED <<connections, tunnels, active_tunnels, tasks, fs,
                   ids, calls, server, json>>

\* The socket is open and the session is built.
test_session(p) ==
    /\ pc[p] = "ts_tcp"
    /\ Goto(p, "ts_hs", {}, [loc[p] EXCEPT !.cur = TestSession])
    /\ UNCHANGED <<connections, tunnels, ssh_sessions, active_tunnels, tasks, fs,
                   ids, calls, server, json>>

\* session.handshake() returns Err.
test_handshake_failed(p) ==
    /\ pc[p] = "ts_hs"
    /\ Return(p, ConnectionResult(FALSE, "SSH_HANDSHAKE_ERROR"))
    /\ UNCHANGED <<connections, tunnels, ssh_sessions, active_tunnels, tasks, fs,
                   ids, calls, server, json>>

\* The handshake is done; password authentication needs a password. (The
\* key file validated at the start is still there.)
test_handshake(p) ==
    /\ pc[p] = "ts_hs"
    /\ LET c == call[p].creds
       IN  IF c.auth_method = "password" /\ c.password = "None"
           THEN Return(p, ConnectionResult(FALSE, "PASSWORD_MISSING"))
           ELSE Goto(p, "ts_auth", {}, loc[p])
    /\ UNCHANGED <<connections, tunnels, ssh_sessions, active_tunnels, tasks, fs,
                   ids, calls, server, json>>

\* userauth_password / userauth_pubkey_file answer: authenticated or not.
test_authenticate(p) ==
    /\ pc[p] = "ts_auth"
    /\ \/ Return(p, Ok)
       \/ Return(p, ConnectionResult(FALSE, "SSH_AUTH_ERROR"))
    /\ UNCHANGED <<connections, tunnels, ssh_sessions, active_tunnels, tasks, fs,
                   ids, calls, server, json>>

\* test_ssh_connection: the 5 second timeout fires while the test waits for
\* the socket, the handshake or the authentication.
test_timed_out(p) ==
    /\ pc[p] \in {"ts_tcp", "ts_hs", "ts_auth"}
    /\ Return(p, ConnectionResult(FALSE, "TIMEOUT"))
    /\ UNCHANGED <<connections, tunnels, ssh_sessions, active_tunnels, tasks, fs,
                   ids, calls, server, json>>

\* ------------------------------------- the worker tasks when things fail

\* listener.accept() returns Err: the loop breaks, the select arm aborts
\* the heartbeat task and the accept-loop task ends.  The ActiveTunnel entry
\* and the tunnel record are not touched.
accept_failed(w) ==
    /\ w \in DOMAIN tasks
    /\ tasks[w].accept = "running"
    /\ tasks' = Compact([tasks EXCEPT ![w].accept = "stopped", ![w].heartbeat = FALSE])
    /\ UNCHANGED <<connections, tunnels, ssh_sessions, active_tunnels, fs,
                   held, pc, call, loc, ids, calls>>
    /\ UNCHANGED <<server, json>>

\* The heartbeat probe (channel_session, exec "true") answers:
\* failure_count is reset.
heartbeat_ok(w) ==
    /\ w \in DOMAIN tasks
    /\ tasks[w].heartbeat
    /\ Alive(tasks[w].session)
    /\ tasks' = [tasks EXCEPT ![w].failure_count = 0]
    /\ UNCHANGED <<connections, tunnels, ssh_sessions, active_tunnels, fs,
                   held, pc, call, loc, ids, calls>>
    /\ UNCHANGED <<server, json>>

\* A heartbeat that gives up whatever auto_reconnect says.
heartbeat_failed_always(w) ==
    /\ w \in DOMAIN tasks
    /\ tasks[w].heartbeat
    /\ tasks[w].failure_count < MaxFailures
    /\ LET n == tasks[w].failure_count + 1
       IN  tasks' = Compact([tasks EXCEPT ![w].failure_count = n,
                                          ![w].heartbeat = ~(n >= FailureLimit)])
    /\ UNCHANGED <<connections, tunnels, ssh_sessions, active_tunnels, fs,
                   held, pc, call, loc, ids, calls>>
    /\ UNCHANGED <<server, json>>

\* The heartbeat probe fails (the channel cannot be opened, or the command
\* cannot be run): failure_count is incremented, and with FailureLimit
\* failures and auto_reconnect the heartbeat loop breaks.  Nothing waits for
\* the heartbeat task: the accept loop goes on.
heartbeat_failed(w) ==
    /\ w \in DOMAIN tasks
    /\ tasks[w].heartbeat
    /\ tasks[w].failure_count < MaxFailures
    /\ LET n == tasks[w].failure_count + 1
       IN  tasks' = Compact([tasks EXCEPT
                               ![w].failure_count = n,
                               ![w].heartbeat = ~(n >= FailureLimit /\ tasks[w].auto_reconnect)])
    /\ UNCHANGED <<connections, tunnels, ssh_sessions, active_tunnels, fs,
                   held, pc, call, loc, ids, calls>>
    /\ UNCHANGED <<server, json>>

\* ---------------------------------------------------------- specification

Step(p) ==
    \/ save_lock_connections(p) \/ save_load(p) \/ save_write(p)
    \/ initialize_load(p) \/ initialize_connections(p) \/ initialize_tunnels(p)
    \/ add_connection(p) \/ update_connection_get(p) \/ update_connection(p)
    \/ delete_connection_stop(p) \/ delete_connection_remove(p)
    \/ delete_connection_retain(p)
    \/ connect_begin(p) \/ connect_test_failed(p) \/ connect_establish_failed(p)
    \/ connect_store_session(p) \/ connect_mark_connected(p)
    \/ start_snapshot(p)
    \/ \E t \in DOMAIN tunnels \cup DOMAIN loc[p].snap :
          start_no_session(p, t) \/ start_forwarding(p, t) \/ start_bind_failed(p, t)
    \/ start_register(p) \/ start_mark_active(p)
    \/ disconnect_lock_connections(p) \/ disconnect_lock_sessions(p)
    \/ disconnect_stop_tunnels(p) \/ disconnect_snapshot(p)
    \/ disconnect_mark_inactive(p)
    \/ add_tunnel(p) \/ update_tunnel(p)
    \/ delete_tunnel_lock(p) \/ delete_tunnel_remove(p)
    \/ stop_tunnel_abort(p) \/ stop_tunnel_mark(p)

Background ==
    \E w \in DOMAIN tasks : worker_start(w) \/ worker_accept(w) \/ pump_end(w)

\* Commands run as concurrent tasks.
Next ==
    \/ \E p \in Procs : Begin(p)
    \/ \E p \in Procs : Step(p)
    \/ Background

Spec == Init /\ [][Next]_vars

\* Commands run one at a time: a call starts only when no other is running.
SeqNext ==
    \/ \E p \in Procs : (\A q \in Procs : Quiet(q)) /\ Begin(p)
    \/ \E p \in Procs : Step(p)
    \/ Background

SeqSpec == Init /\ [][SeqNext]_vars


StorageStep(p) ==
    \/ storage_create_dir(p) \/ storage_backup(p) \/ storage_backup_failed(p)
    \/ storage_open_temp(p) \/ storage_write_temp(p) \/ storage_rename(p)
    \/ storage_remove_backup(p)
    \/ initialize_load(p) \/ initialize_connections(p) \/ initialize_tunnels(p)

\* The persistence layer alone: saves and loads one at a time, and kills.
CrashNext ==
    \/ \E p \in Procs : storage_begin(p)
    \/ \E p \in Procs : StorageStep(p)
    \/ Crash

CrashSpec == Init /\ [][CrashNext]_vars


\* Saves of the catalog and of the settings, running at the same time on a
\* file system without faults.
RaceNext ==
    \/ \E p \in Procs : data_manager_call(p)
    \/ \E p \in Procs : data_manager_load(p)
    \/ \E p \in Procs : storage_create_dir(p)
    \/ \E p \in Procs : storage_backup(p)
    \/ \E p \in Procs : storage_open_temp(p)
    \/ \E p \in Procs : storage_write_temp(p)
    \/ \E p \in Procs : storage_rename(p)
    \/ \E p \in Procs : storage_remove_backup(p)

RaceSpec == Init /\ [][RaceNext]_vars

\* The commands the health monitor can meet on its way: initialize,
\* connect_ssh and disconnect_ssh.
WatchBegin(p) ==
    /\ Begin(p)
    /\ call'[p].op \in {"initialize", "connect_ssh", "disconnect_ssh"}

\* The steps of those commands; connect_ssh succeeds when the server is
\* reachable and fails when it is not, and the listeners bind.
WatchStep(p) ==
    \/ save_lock_connections(p) \/ save_load(p) \/ save_write(p)
    \/ initialize_load(p) \/ initialize_connections(p) \/ initialize_tunnels(p)
    \/ connect_begin(p)
    \/ server.state = "down" /\ connect_test_failed(p)
    \/ server.state = "down" /\ connect_establish_failed(p)
    \/ server.state # "down" /\ connect_store_session(p)
    \/ connect_mark_connected(p)
    \/ start_snapshot(p)
    \/ \E t \in DOMAIN tunnels \cup DOMAIN loc[p].snap :
          start_no_session(p, t) \/ start_forwarding(p, t)
    \/ start_register(p) \/ start_mark_active(p)
    \/ disconnect_lock_connections(p) \/ disconnect_lock_sessions(p)
    \/ disconnect_stop_tunnels(p) \/ disconnect_snapshot(p)
    \/ disconnect_mark_inactive(p)

\* The health monitoring task: its own steps and those of the
\* disconnect_ssh and connect_ssh it calls.
MonitorStep ==
    \/ monitor_tick \/ monitor_rest
    \/ \E e \in DOMAIN connections \cup call[Monitor].todo : monitor_check(e)
    \/ monitor_probe_ok \/ monitor_probe_no_channel \/ monitor_probe_exec_failed
    \/ monitor_read_connection \/ monitor_read_tunnels
    \/ monitor_sleep \/ monitor_reconnected
    \/ WatchStep(Monitor)

\* The window the commands are invoked from.
User == "u1"

\* The health monitor next to the commands of one window, and a server that
\* can go away once and come back.
WatchNext ==
    \/ WatchBegin(User)
    \/ WatchStep(User)
    \/ MonitorStep
    \/ Background
    \/ server_lost
    \/ server_back

WatchSpec == Init /\ [][WatchNext]_vars

\* The runtime keeps polling every task that can make progress.
WatchLive ==
    /\ WatchSpec
    /\ WF_vars(MonitorStep)
    /\ WF_vars(WatchStep(User))

TestStep(p) ==
    \/ test_connection_get(p) \/ test_connection_data_auth(p)
    \/ test_validate_key(p)
    \/ test_tcp_failed(p) \/ test_session_failed(p) \/ test_session(p)
    \/ test_handshake_failed(p) \/ test_handshake(p)
    \/ test_authenticate(p) \/ test_timed_out(p)

\* The commands invoked one at a time, the two test commands among them.
TestNext ==
    \/ \E p \in Procs : (\A q \in Procs : Quiet(q)) /\ Begin(p)
    \/ \E p \in Procs : (\A q \in Procs : Quiet(q)) /\ TestBegin(p)
    \/ \E p \in Procs : Step(p)
    \/ \E p \in Procs : TestStep(p)
    \/ Background

TestSpec == Init /\ [][TestNext]_vars

\* What the worker tasks do when the listener or the keepalive fails.
Failures ==
    \E w \in DOMAIN tasks : accept_failed(w) \/ heartbeat_ok(w) \/ heartbeat_failed(w)

\* The workers of the tunnels one window connects and disconnects, with
\* listeners and keepalives that can fail, and no health monitor.
WorkerNext ==
    \/ WatchBegin(User)
    \/ WatchStep(User)
    \/ Background
    \/ Failures
    \/ server_lost
    \/ server_back

WorkerSpec == Init /\ [][WorkerNext]_vars

\* The runtime keeps polling the worker tasks and the command under way.
WorkerLive ==
    /\ WorkerSpec
    /\ WF_vars(Background)
    /\ WF_vars(WatchStep(User))

\* The commands invoked one at a time on a disk whose writes can fail and
\* with a peer that can stop answering.
FaultNext ==
    \/ SeqNext
    \/ \E p \in Procs : save_failed(p)
    \/ \E p \in Procs : connect_peer_silent(p)

FaultSpec == Init /\ [][FaultNext]_vars

\* The converters of serde_utils on their own: a snake_case key or document,
\* converted to camelCase and back.
KeyInit ==
    /\ connections = EmptyMap
    /\ tunnels = EmptyMap
    /\ ssh_sessions = EmptyMap
    /\ active_tunnels = EmptyMap
    /\ tasks = EmptyMap
    /\ fs = [dir |-> FALSE, data |-> Absent, tmp |-> Absent, bak |-> Absent]
    /\ ids = [conn |-> 1, tunnel |-> 1, session |-> 1, task |-> 1]
    /\ held = [p \in Tasks |-> {}]
    /\ pc = [p \in Tasks |-> "idle"]
    /\ call = [p \in Tasks |-> NoCall]
    /\ loc = [p \in Tasks |-> NoLocals]
    /\ calls = 0
    /\ server = ServerUp
    /\ \/ \E k \in SnakeKeys :
            json = [stage |-> "input", kind |-> "key", v |-> k, orig |-> k]
       \/ \E d \in SnakeValues :
            json = [stage |-> "input", kind |-> "value", v |-> d, orig |-> d]

key_to_camel ==
    /\ json.stage = "input"
    /\ json.kind = "key"
    /\ json' = [json EXCEPT !.stage = "camel", !.v = snake_to_camel(json.v)]
    /\ UNCHANGED <<connections, tunnels, ssh_sessions, active_tunnels, tasks, fs,
                   held, pc, call, loc, ids, calls, server>>

key_to_snake ==
    /\ json.stage = "camel"
    /\ json.kind = "key"
    /\ json' = [json EXCEPT !.stage = "snake", !.v = camel_to_snake(json.v)]
    /\ UNCHANGED <<connections, tunnels, ssh_sessions, active_tunnels, tasks, fs,
                   held, pc, call, loc, ids, calls, server>>

value_to_camel ==
    /\ json.stage = "input"
    /\ json.kind = "value"
    /\ \E camel_json \in convert_keys_to_camel(json.v) :
         json' = [json EXCEPT !.stage = "camel", !.v = camel_json]
    /\ UNCHANGED <<connections, tunnels, ssh_sessions, active_tunnels, tasks, fs,
                   held, pc, call, loc, ids, calls, server>>

value_to_snake ==
    /\ json.stage = "camel"
    /\ json.kind = "value"
    /\ \E back_to_snake \in convert_keys_to_snake(json.v) :
         json' = [json EXCEPT !.stage = "snake", !.v = back_to_snake]
    /\ UNCHANGED <<connections, tunnels, ssh_sessions, active_tunnels, tasks, fs,
                   held, pc, call, loc, ids, calls, server>>

KeyNext ==
    \/ key_to_camel
    \/ key_to_snake
    \/ value_to_camel
    \/ value_to_snake

KeySpec == KeyInit /\ [][KeyNext]_vars

\* ================================================================== claims

\* Task p's call of method op returns in this step.
Returns(p, op) == call[p].op = op /\ pc[p] # "done" /\ pc'[p] = "done"

\* Task p takes a step of its call of method op.
Steps(p, op) == call[p].op = op /\ ~Quiet(p) /\ pc'[p] # pc[p]

\* The catalog as data.json holds it.
Persisted(f) == IF f.data.exists THEN f.data.doc ELSE AppDataDefault

\* C1. Cascade invariant: in every reachable state every tunnel of the
\* catalog has a connection_id that is the id of a connection in the catalog.
CascadeInvariant ==
    \A t \in DOMAIN tunnels : Has(connections, tunnels[t].connection_id)

\* C2. Lifecycle invariant: in every reachable state every ActiveTunnel
\* belongs to a connection that has a session in ssh_sessions.
LifecycleInvariant ==
    \A k \in DOMAIN active_tunnels :
        Has(ssh_sessions, active_tunnels[k].tunnel.connection_id)

\* C3. Persisted invariant: when a mutating method returns success the
\* connections and tunnels in data.json are the in-memory ones, and when
\* connect_ssh or disconnect_ssh returns, the status they gave the
\* connection is the one in data.json.
MutatingOps ==
    {"add_connection", "update_connection", "delete_connection", "add_tunnel",
     "update_tunnel", "delete_tunnel", "stop_tunnel", "connect_ssh", "disconnect_ssh"}

PersistedOnReturn ==
    [][\A p \in Procs : \A op \in MutatingOps :
          Returns(p, op) =>
            /\ call'[p].result.success =>
                 /\ Persisted(fs').connections = connections'
                 /\ Persisted(fs').tunnels = tunnels'
            /\ (op \in {"connect_ssh", "disconnect_ssh"} /\ Has(connections', call[p].id)) =>
                 /\ Has(Persisted(fs').connections, call[p].id)
                 /\ Persisted(fs').connections[call[p].id].status
                      = connections'[call[p].id].status]_vars

\* C4. Atomic save: every file-system step of a save leaves data.json as it
\* was or makes it the whole document being saved, so a kill between any two
\* steps finds one of the two; data.json never holds a cut-short write; and
\* a load yields the content of data.json whatever the temp file holds.
AtomicSave ==
    [][/\ \A p \in Procs :
            Steps(p, "save_data") => fs'.data \in {fs.data, Written(loc[p].data)}
       /\ fs'.data.exists => fs'.data.complete
       /\ \A p \in Procs :
            (pc[p] = "in_load" /\ pc'[p] = "in_conn") =>
              loc'[p].data = Persisted(fs)]_vars

\* C4 witness: no save is running, yet a complete temp file that differs from
\* data.json is there, left by a save killed before its rename; the
\* initialize after the restart loaded the connections of data.json.
StaleTempIgnored ==
    /\ fs.tmp.exists /\ fs.tmp.complete /\ fs.data.exists /\ fs.tmp # fs.data
    /\ \A p \in Procs : Quiet(p)
    /\ \E p \in Procs : pc[p] = "done" /\ call[p].op = "initialize"
    /\ connections = fs.data.doc.connections
    /\ connections # fs.tmp.doc.connections

\* C5. When disconnect_ssh(e) returns success, under any interleaving, no
\* ActiveTunnel belongs to e, ssh_sessions holds no session for e, the status
\* of e is Disconnected and every tunnel of e is Inactive.
DisconnectPostcondition ==
    [][\A p \in Procs :
          (Returns(p, "disconnect_ssh") /\ call'[p].result.success) =>
            /\ ActiveKeys(active_tunnels', call[p].id) = {}
            /\ ~Has(ssh_sessions', call[p].id)
            /\ Has(connections', call[p].id) =>
                 connections'[call[p].id].status = Disconnected
            /\ \A t \in DOMAIN TunnelsOf(tunnels', call[p].id) :
                 tunnels'[t].status = Inactive]_vars

\* C6. Worker teardown: when disconnect_ssh(e) returns no task of a worker
\* of e is alive, and when stop_tunnel(t) or delete_tunnel(t) returns no task
\* of a worker of t is alive.
WorkerTeardown ==
    [][\A p \in Procs :
          /\ Returns(p, "disconnect_ssh") =>
               \A w \in DOMAIN tasks' : tasks'[w].connection_id # call[p].id
          /\ (Returns(p, "stop_tunnel") \/ Returns(p, "delete_tunnel")) =>
               \A w \in DOMAIN tasks' : tasks'[w].tunnel # call[p].id]_vars

\* C7. When delete_connection(e) returns success the catalog holds no
\* connection e and no tunnel of e, and no step of the call changes another
\* connection or a tunnel of another connection.
OtherTunnels(ts, id) ==
    [t \in {x \in DOMAIN ts : ts[x].connection_id # id} |-> ts[t]]

DeleteEndpointFrame ==
    [][\A p \in Procs :
          Steps(p, "delete_connection") =>
            /\ RemoveKeys(connections', {call[p].id}) = RemoveKeys(connections, {call[p].id})
            /\ OtherTunnels(tunnels', call[p].id) = OtherTunnels(tunnels, call[p].id)
            /\ (pc'[p] = "done" /\ call'[p].result.success) =>
                 /\ ~Has(connections', call[p].id)
                 /\ DOMAIN TunnelsOf(tunnels', call[p].id) = {}]_vars

\* C7 witness: connection 1 of the two loaded connections was deleted; its
\* tunnel is gone, connection 2 and its tunnel are as they were loaded.
DeletedOneOfTwo ==
    /\ \E p \in Procs :
         pc[p] = "done" /\ call[p].op = "delete_connection" /\ call[p].id = 1
    /\ connections = RemoveKeys(SavedTwoEndpoints.connections, {1})
    /\ tunnels = RemoveKeys(SavedTwoEndpoints.tunnels, {1})

\* C8. When delete_connection(e) returns for a connection that had a session
\* and an ActiveTunnel, no ActiveTunnel belongs to e and ssh_sessions holds
\* no session for e.
DeleteEndpointTeardown ==
    [][\A p \in Procs :
          (Returns(p, "delete_connection") /\ call[p].live) =>
            /\ ActiveKeys(active_tunnels', call[p].id) = {}
            /\ ~Has(ssh_sessions', call[p].id)]_vars

\* C9. When connect_ssh(id) returns success and no tunnel failed to start,
\* ssh_sessions holds a session under id, the connection is Connected with
\* last_connected set, and every tunnel of the connection is Active and has
\* an ActiveTunnel.
ConnectPostcondition ==
    [][\A p \in Procs :
          (Returns(p, "connect_ssh") /\ call'[p].result.success /\ loc[p].started) =>
            /\ Has(ssh_sessions', call[p].id)
            /\ Has(connections', call[p].id)
            /\ connections'[call[p].id].status = Connected
            /\ connections'[call[p].id].last_connected = SomeTime
            /\ \A t \in DOMAIN TunnelsOf(tunnels', call[p].id) :
                 tunnels'[t].status = Active /\ Has(active_tunnels', t)]_vars

\* C9 witness: connect_ssh returned success for a connection with a tunnel,
\* which is Active and has its ActiveTunnel.
ConnectedWithTunnel ==
    \E p \in Procs :
      /\ pc[p] = "done" /\ call[p].op = "connect_ssh" /\ call[p].result.success
      /\ Has(ssh_sessions, call[p].id)
      /\ \E t \in DOMAIN tunnels :
           /\ tunnels[t].connection_id = call[p].id
           /\ tunnels[t].status = Active
           /\ Has(active_tunnels, t)

\* C10. When connect_ssh(id) returns a failure for a connection of the
\* catalog, the status of the connection is Error and ssh_sessions holds no
\* session for id.
ConnectFailurePostcondition ==
    [][\A p \in Procs :
          (Returns(p, "connect_ssh") /\ ~call'[p].result.success
             /\ Has(connections', call[p].id)) =>
            /\ connections'[call[p].id].status = ConnError
            /\ ~Has(ssh_sessions', call[p].id)]_vars

\* The four maps of the ConnectionManager are left as they are.
SameMaps == UNCHANGED <<connections, tunnels, ssh_sessions, active_tunnels>>

\* C11. connect_ssh(id) for an id that is not in connections returns a
\* failure whose error_code is NOT_FOUND and changes none of connections,
\* tunnels, ssh_sessions and active_tunnels.
ConnectUnknownNotFound ==
    [][\A p \in Procs :
          (Steps(p, "connect_ssh") /\ ~Has(connections, call[p].id)) =>
            /\ pc'[p] = "done"
            /\ ~call'[p].result.success
            /\ call'[p].result.error_code = "NOT_FOUND"
            /\ SameMaps]_vars

\* C16. When initialize returns, every connection has status Disconnected
\* and every tunnel has status Inactive, whatever data.json held.
InitializeNormalises ==
    [][\A p \in Procs :
          (Returns(p, "initialize") /\ call'[p].result.success) =>
            /\ \A c \in DOMAIN connections' : connections'[c].status = Disconnected
            /\ \A t \in DOMAIN tunnels' : tunnels'[t].status = Inactive]_vars

\* C17. Idempotence.  delete_tunnel(id) leaves no tunnel id and no
\* ActiveTunnel id, and called again in that state it succeeds and changes
\* none of the four maps; disconnect_ssh(id) on an existing connection leaves
\* it Disconnected with no session, no ActiveTunnel and every tunnel
\* Inactive, and called again in that state it succeeds and changes none of
\* the four maps; stop_tunnel(id) on a tunnel that is Inactive and has no
\* ActiveTunnel succeeds and changes none of the four maps.
TunnelGone(id) == ~Has(tunnels, id) /\ ~Has(active_tunnels, id)

IsDisconnected(id) ==
    /\ Has(connections, id) /\ connections[id].status = Disconnected
    /\ ~Has(ssh_sessions, id)
    /\ ActiveOf(id) = {}
    /\ \A t \in DOMAIN TunnelsOf(tunnels, id) : tunnels[t].status = Inactive

TunnelIdle(id) ==
    /\ ~Has(active_tunnels, id)
    /\ Has(tunnels, id) => tunnels[id].status = Inactive

Succeeds(p) == pc'[p] = "done" => call'[p].result.success

Idempotence ==
    [][\A p \in Procs :
          /\ (Steps(p, "delete_tunnel") /\ TunnelGone(call[p].id)) =>
               SameMaps /\ Succeeds(p)
          /\ (Steps(p, "disconnect_ssh") /\ IsDisconnected(call[p].id)) =>
               SameMaps /\ Succeeds(p)
          /\ (Steps(p, "stop_tunnel") /\ TunnelIdle(call[p].id)) =>
               SameMaps /\ Succeeds(p)
          /\ Returns(p, "delete_tunnel") =>
               call'[p].result.success /\ TunnelGone(call[p].id)'
          /\ (Returns(p, "disconnect_ssh") /\ call'[p].result.success) =>
               IsDisconnected(call[p].id)']_vars

\* C17 witness: after initialize loaded tunnel 1, delete_tunnel(1) was called
\* twice, one call after the other, and both returned success.
DeletedTwice ==
    /\ \A p \in Procs :
         /\ pc[p] = "done" /\ call[p].op = "delete_tunnel" /\ call[p].id = 1
         /\ call[p].result.success
    /\ calls = 3
    /\ ~Has(tunnels, 1)
    /\ DOMAIN connections # {}


\* The monitor is between the start of its disconnect_ssh and the end of its
\* connect_ssh.
InReconnection == call[Monitor].op \in {"disconnect_ssh", "connect_ssh"}

\* C12: while the health monitor is in a reconnection of connection e (its
\* disconnect_ssh, the 5 second sleep, its connect_ssh), no step of a
\* connect_ssh(e) or disconnect_ssh(e) of a user changes the connections,
\* the tunnels, the sessions or the active tunnels.
ReconnectionExclusive ==
    [][\A p \in Procs :
         /\ InReconnection
         /\ call[p].id = call[Monitor].id
         /\ Steps(p, "connect_ssh") \/ Steps(p, "disconnect_ssh")
         => SameMaps]_vars


\* C13: when the probe of a Connected connection with an auto_reconnect
\* tunnel fails, because the channel cannot be opened or because the
\* command cannot be run, the monitor goes on to the reconnection
\* (disconnect_ssh, sleep, connect_ssh) of that connection.
FailedProbeReconnects ==
    [][/\ pc[Monitor] = "hm_probe"
       /\ pc'[Monitor] # "hm_probe"
       /\ ~Alive(loc[Monitor].cur)
       /\ Has(connections, call[Monitor].id)
       /\ connections[call[Monitor].id].status = Connected
       /\ AutoTunnels(tunnels, call[Monitor].id) # {}
       => pc'[Monitor] = "hm_conn"]_vars


\* C14: the monitor changes the maps only inside a reconnection; it starts
\* one only for a connection with an auto_reconnect tunnel, only after a
\* failed probe of a session it found in ssh_sessions, and only for a
\* connection that was Connected when the tick listed it.
MonitorActsOnlyWhenDue ==
    [][LET m == Monitor
           from(a, b) == pc'[m] = b /\ pc[m] # b => pc[m] = a /\ call'[m].id = call[m].id
       IN  /\ pc[m] = "idle" /\ pc'[m] # "idle"
              => call'[m].todo \subseteq
                   {e \in DOMAIN connections : connections[e].status = Connected}
           /\ pc[m] # "idle" => call'[m].todo \subseteq call[m].todo
           /\ pc'[m] = "hm_probe" /\ pc[m] # "hm_probe"
              => /\ pc[m] = "hm_next"
                 /\ call'[m].id \in call[m].todo
                 /\ Has(ssh_sessions, call'[m].id)
           /\ from("hm_probe", "hm_conn")
           /\ from("hm_conn", "hm_tun")
           /\ ~InReconnection /\ InReconnection'
              => /\ pc[m] = "hm_tun"
                 /\ call'[m].id = call[m].id
                 /\ AutoTunnels(tunnels, call[m].id) # {}
           /\ InReconnection /\ InReconnection' => call'[m].id = call[m].id
           /\ ~InReconnection /\ pc'[m] # pc[m] => SameMaps]_vars

\* The monitor has reconnected a connection: its connect_ssh succeeded.
MonitorReconnected ==
    /\ pc[Monitor] = "done"
    /\ call[Monitor].op = "connect_ssh"
    /\ call[Monitor].result.success
    /\ server.state = "back"
    /\ AutoTunnels(tunnels, call[Monitor].id) # {}


\* Connection e is Connected again on a session that answers, with an
\* Active worker for an auto_reconnect tunnel.
Restored(e) ==
    /\ Has(connections, e)
    /\ connections[e].status = Connected
    /\ Has(ssh_sessions, e)
    /\ Alive(ssh_sessions[e])
    /\ \E t \in AutoTunnels(tunnels, e) :
         tunnels[t].status = Active /\ Has(active_tunnels, t)

\* C15: when the server of a Connected connection with an Active
\* auto_reconnect tunnel went away and is reachable again for good, then,
\* with the monitor and the commands scheduled fairly, the connection is
\* eventually Connected and the tunnel Active again unless a user has
\* invoked a command in between.
AutoReconnectEventually ==
    (server.state = "back" /\ server.lost # {})
      ~> (calls # server.calls \/ \A e \in server.lost : Restored(e))


\* A step of test_connection or test_connection_data.
TestSteps(p) == Steps(p, "test_connection") \/ Steps(p, "test_connection_data")

\* C18: no step of a test changes the connections, the tunnels, the
\* sessions, the active tunnels, the workers or the files, and the session
\* the test opened is gone when it returns.
TestChangesNothing ==
    [][\A p \in Procs :
         TestSteps(p)
         => /\ UNCHANGED <<connections, tunnels, ssh_sessions, active_tunnels,
                           tasks, fs, ids>>
            /\ pc'[p] = "done" => loc'[p] = NoLocals]_vars

\* A test of a connection that is Connected with a session has succeeded;
\* the other client has only called initialize, so the connect_ssh came
\* from the testing client before its test.
TestedWhileConnected ==
    \E p \in Procs :
        /\ pc[p] = "done"
        /\ call[p].op = "test_connection"
        /\ call[p].result = Ok
        /\ Has(ssh_sessions, call[p].id)
        /\ connections[call[p].id].status = Connected
        /\ \A q \in Procs \ {p} : call[q].op = "initialize"

\* C19: a test with key authentication returns KEY_PATH_MISSING when there
\* is no key path and KEY_FILE_NOT_FOUND when the key file does not exist,
\* both from the validation step, and it gets to the socket only with a key
\* file that exists.
KeyValidatedFirst ==
    [][\A p \in Procs :
         TestSteps(p) /\ call[p].creds.auth_method = "key"
         => LET path == call[p].creds.key_path
            IN  /\ pc'[p] \in {"ts_tcp", "ts_hs", "ts_auth"} => path \in KeyFiles
                /\ pc[p] = "ts_key" /\ path = "None"
                   => /\ pc'[p] = "done"
                      /\ call'[p].result = ConnectionResult(FALSE, "KEY_PATH_MISSING")
                /\ pc[p] = "ts_key" /\ path \notin KeyFiles \cup {"None"}
                   => /\ pc'[p] = "done"
                      /\ call'[p].result = ConnectionResult(FALSE, "KEY_FILE_NOT_FOUND")]_vars

\* The test of a stored connection whose key file does not exist has
\* returned KEY_FILE_NOT_FOUND.
KeyFileMissingReported ==
    \E p \in Procs :
        /\ pc[p] = "done"
        /\ call[p].op = "test_connection"
        /\ Has(connections, call[p].id)
        /\ call[p].creds = Credentials("key", "None", "/does/not/exist")
        /\ call[p].result = ConnectionResult(FALSE, "KEY_FILE_NOT_FOUND")

\* C20: test_connection and test_connection_data return a ConnectionResult
\* for every input, a missing id and an unknown auth method included.
TestNeverRaises ==
    [][\A p \in Procs :
         Returns(p, "test_connection") \/ Returns(p, "test_connection_data")
         => DOMAIN call'[p].result = {"success", "error_code"}]_vars


\* C21: delete_connection on NoSuchId, an id no connection ever has,
\* changes neither the maps nor the persisted document at any step and
\* returns a failure with the NOT_FOUND code.
DeleteUnknownNotFound ==
    [][\A p \in Procs :
          call[p].id = NoSuchId =>
            /\ Steps(p, "delete_connection")
                 => SameMaps /\ Persisted(fs') = Persisted(fs)
            /\ Returns(p, "delete_connection")
                 => /\ ~call'[p].result.success
                    /\ call'[p].result.error_code = "NOT_FOUND"]_vars


\* C22: a step of update_connection changes nothing but the name of the
\* connection it updates: id, status and last_connected of that connection
\* stay as they are at that moment, whatever the other tasks do; the update
\* step stores the supplied name; on an id that is not in connections the
\* call returns an error.
UpdateKeepsRuntimeFields ==
    [][\A p \in Procs :
          Steps(p, "update_connection") =>
            LET id == call[p].id
            IN  /\ UNCHANGED <<tunnels, ssh_sessions, active_tunnels>>
                /\ DOMAIN connections' = DOMAIN connections
                /\ \A c \in DOMAIN connections :
                     /\ c # id => connections'[c] = connections[c]
                     /\ connections'[c].id = connections[c].id
                     /\ connections'[c].status = connections[c].status
                     /\ connections'[c].last_connected = connections[c].last_connected
                /\ pc[p] = "uc_update" /\ Has(connections, id)
                     => connections'[id].name = call[p].name
                /\ pc[p] \in {"uc_get", "uc_update"} /\ ~Has(connections, id)
                     => /\ pc'[p] = "done"
                        /\ call'[p].result = Err("Connection not found")]_vars

\* An update has read a connection that a connect_ssh of the other client
\* had marked Connecting and has stored its name on it, the connect_ssh
\* still being under way.
UpdatedWhileConnecting ==
    \E p, q \in Procs :
        /\ call[p].op = "update_connection" /\ pc[p] = "sv_conn"
        /\ call[q].op = "connect_ssh" /\ pc[q] = "cn_net"
        /\ call[q].id = call[p].id
        /\ loc[p].snap[call[p].id].status = Connecting
        /\ connections[call[p].id].status = Connecting
        /\ connections[call[p].id].name = call[p].name
        /\ connections[call[p].id].name # loc[p].snap[call[p].id].name


\* C23: the insert of add_connection stores the record under an id that no
\* connection had, with that id and status Disconnected, and hands the id
\* to the caller; no step of add_connection changes another connection or
\* a tunnel.
AddStoresFresh ==
    [][\A p \in Procs :
          Steps(p, "add_connection") =>
            /\ UNCHANGED <<tunnels, ssh_sessions, active_tunnels>>
            /\ \A c \in DOMAIN connections :
                 Has(connections', c) /\ connections'[c] = connections[c]
            /\ IF pc[p] = "ac_insert" /\ call[p].creds.auth_method \in {"password", "key"}
               THEN LET new == call'[p].id
                    IN  /\ new \notin DOMAIN connections
                        /\ DOMAIN connections' = DOMAIN connections \cup {new}
                        /\ connections'[new].id = new
                        /\ connections'[new].status = Disconnected
                        /\ connections'[new].name = call[p].name
               ELSE UNCHANGED connections /\ call'[p].id = call[p].id
            /\ Returns(p, "add_connection") /\ call'[p].result.success
                 => Has(connections', call'[p].id)]_vars

\* Two add_connection calls in a row have returned their ids, both in
\* connections, next to a connection and a tunnel loaded from data.json.
AddedTwo ==
    /\ \A p \in Procs :
         /\ pc[p] = "done"
         /\ call[p].op = "add_connection"
         /\ call[p].result.success
         /\ Has(connections, call[p].id)
         /\ connections[call[p].id].status = Disconnected
    /\ \E p, q \in Procs : call[p].id # call[q].id
    /\ Cardinality(DOMAIN connections) >= 3
    /\ DOMAIN tunnels # {}


\* The accept loop of worker w ends on its own in this step: it was
\* running, it is not any more, and no call aborted it.
AcceptLoopFails(w) ==
    /\ w \in DOMAIN tasks
    /\ tasks[w].accept = "running"
    /\ w \in DOMAIN tasks' => tasks'[w].accept = "stopped"
    /\ UNCHANGED <<pc, active_tunnels>>

\* C24: when the accept loop of a worker fails, no task of the worker is
\* left and the tunnel of the worker is still in tunnels, with status
\* Inactive.
AcceptFailureMarksInactive ==
    [][\A w \in DOMAIN tasks :
          AcceptLoopFails(w) /\ Has(tunnels, tasks[w].tunnel) =>
            /\ w \notin DOMAIN tasks' \/ (~tasks'[w].heartbeat /\ tasks'[w].accept = "stopped")
            /\ Has(tunnels', tasks[w].tunnel)
            /\ tunnels'[tasks[w].tunnel].status = Inactive]_vars


\* The heartbeat task of worker w ends in this step.
HeartbeatEnds(w) ==
    /\ w \in DOMAIN tasks
    /\ tasks[w].heartbeat
    /\ w \in DOMAIN tasks' => ~tasks'[w].heartbeat

\* C29: failure_count moves by a reset to zero or by one up; a heartbeat
\* task with auto_reconnect ends when its count gets to FailureLimit and is
\* never alive with such a count; a heartbeat task ends on its own only
\* with auto_reconnect and only on the failure that takes the count to
\* FailureLimit (the accept loop aborts it when the listener fails).
HeartbeatCounts ==
    [][\A w \in DOMAIN tasks :
          tasks[w].heartbeat =>
            LET n == tasks[w].failure_count
            IN  /\ tasks[w].auto_reconnect => n < FailureLimit
                /\ w \in DOMAIN tasks' /\ tasks'[w].heartbeat
                     => tasks'[w].failure_count \in {0, n, n + 1}
                /\ /\ w \in DOMAIN tasks'
                   /\ tasks'[w].failure_count = FailureLimit
                   /\ tasks[w].auto_reconnect
                   => ~tasks'[w].heartbeat
                /\ HeartbeatEnds(w) /\ ~AcceptLoopFails(w)
                     => /\ tasks[w].auto_reconnect
                        /\ n + 1 = FailureLimit]_vars

\* One heartbeat task has given up at FailureLimit failures under
\* auto_reconnect while its accept loop runs on, and another, without
\* auto_reconnect, is alive with more failures than that.
HeartbeatsAtLimit ==
    \E v, w \in DOMAIN tasks :
        /\ tasks[v].auto_reconnect /\ ~tasks[v].heartbeat
        /\ tasks[v].accept = "running"
        /\ tasks[v].failure_count = FailureLimit
        /\ ~tasks[w].auto_reconnect /\ tasks[w].heartbeat
        /\ tasks[w].failure_count > FailureLimit


\* The heartbeat task of worker w has given up: auto_reconnect, FailureLimit
\* failures, and the task is gone.
GaveUp(w) ==
    /\ w \in DOMAIN tasks
    /\ tasks[w].auto_reconnect
    /\ ~tasks[w].heartbeat
    /\ tasks[w].failure_count = FailureLimit

\* C30: once the heartbeat task of a worker has given up after FailureLimit
\* failures, the accept loop of that worker comes to an end.
GaveUpWorkerExits ==
    \A w \in 1 .. MaxCalls :
        GaveUp(w) ~> (w \notin DOMAIN tasks \/ tasks[w].accept = "stopped")


\* The operations that change connections or tunnels and save them.
CatalogMutations ==
    {"add_connection", "update_connection", "delete_connection", "add_tunnel",
     "update_tunnel", "delete_tunnel", "stop_tunnel"}

\* C25: the save at the end of a mutating operation leaves connections and
\* tunnels in memory as the operation made them, whether it fails or not;
\* the operation returns success only when data.json holds them, and an
\* error leaves data.json as it was.
SaveFailureKeepsChange ==
    [][\A p \in Procs : \A op \in CatalogMutations :
          Returns(p, op) /\ pc[p] = "sv_write" =>
            /\ SameMaps
            /\ call'[p].result.success
                 => /\ Persisted(fs').connections = connections
                    /\ Persisted(fs').tunnels = tunnels
            /\ ~call'[p].result.success => fs'.data = fs.data]_vars

\* An add_connection has returned an error from its save, its connection
\* is in memory, and a later operation of the other client has saved it to
\* data.json with the rest.
FailedThenSaved ==
    \E p, q \in Procs :
        /\ pc[p] = "done" /\ call[p].op = "add_connection"
        /\ ~call[p].result.success
        /\ Has(connections, call[p].id)
        /\ pc[q] = "done" /\ call[q].op \in CatalogMutations
        /\ call[q].result.success
        /\ Has(Persisted(fs).connections, call[p].id)
        /\ Persisted(fs).connections = connections
        /\ Persisted(fs).tunnels = tunnels


\* C26: a snake_case key of lower-case words joined by single underscores,
\* and a document with such keys, is the same again after it was converted
\* to camelCase and back to snake_case.
KeyCaseRoundTrip == json.stage = "snake" => json.v = json.orig


\* C27: within disconnect_ssh(id) the workers of id are aborted and their
\* ActiveTunnel entries removed first, then the session of id is removed,
\* and the status of id is set to Disconnected only after both: the step
\* that removes the session finds no ActiveTunnel of id, and the step that
\* changes the status finds neither a session nor an ActiveTunnel of id.
DisconnectInOrder ==
    [][\A p \in Procs :
         Steps(p, "disconnect_ssh") =>
           /\ (Has(ssh_sessions, call[p].id) /\ ~Has(ssh_sessions', call[p].id))
                => ActiveOf(call[p].id) = {}
           /\ connections' # connections
                => (~Has(ssh_sessions, call[p].id) /\ ActiveOf(call[p].id) = {})]_vars

\* C28: within delete_connection(id) the workers of id are aborted and the
\* tunnels of id removed before the connection itself: the step that removes
\* the connection finds no tunnel and no ActiveTunnel of id, and no save of
\* another task that ends while the deletion runs writes a document in which
\* a tunnel of id, stored with its connection until then, has no connection.
DeleteTunnelsFirst ==
    [][\A p \in Procs :
         /\ (Steps(p, "delete_connection") /\ connections' # connections)
              => (DOMAIN TunnelsOf(tunnels, call[p].id) = {} /\ ActiveOf(call[p].id) = {})
         /\ \A q \in Procs \ {p} :
              (/\ call[p].op = "delete_connection"
               /\ ~Quiet(p)
               /\ pc[q] = "sv_write"
               /\ fs' # fs)
              => \A t \in DOMAIN TunnelsOf(Persisted(fs').tunnels, call[p].id) :
                   \/ Has(Persisted(fs').connections, call[p].id)
                   \/ t \notin DOMAIN Persisted(fs).tunnels
                   \/ ~Has(Persisted(fs).connections, call[p].id)]_vars


\* Where a task awaits the network: the test and the session of connect_ssh
\* ("cn_net"), the bind or forward-listen of the tunnel start path
\* ("st_sess"), the channel and the exec of the health check ("hm_probe").
AwaitsNetwork(p) == pc[p] \in {"cn_net", "st_sess", "hm_probe"}

\* C31: a task that awaits a network operation in connect_ssh, in the tunnel
\* start path or in the health check holds no guard of connections, tunnels,
\* ssh_sessions or active_tunnels, and disconnect_ssh, which holds guards
\* from its first step to its last, never awaits the network.
NoLockAcrossNetwork ==
    \A p \in Tasks :
        /\ AwaitsNetwork(p) => held[p] = {}
        /\ (held[p] # {} /\ call[p].op = "disconnect_ssh") => ~AwaitsNetwork(p)

\* The monitor probes a session while the user's connect_ssh is about to
\* bind a listener and another guard-free await is under way.
ProbeWhileBinding ==
    /\ pc[Monitor] = "hm_probe"
    /\ pc[User] = "st_sess"
    /\ Has(ssh_sessions, call[User].id)


\* C32: persistence runs with every guard released: a task between the read
\* of data.json and its write (save_connections_and_tunnels after load_data,
\* before save_data) holds no guard, read or write, of connections, tunnels,
\* ssh_sessions or active_tunnels.
PersistenceHoldsNoLock ==
    \A p \in Tasks : pc[p] = "sv_write" => held[p] = {}

\* Two tasks that wait for a guard the other holds: both are in a call, both
\* hold a guard, and neither has a step it can take.
WaitOnEachOther(p, q) ==
    /\ p # q
    /\ ~Quiet(p) /\ held[p] # {} /\ ~ENABLED Step(p)
    /\ ~Quiet(q) /\ held[q] # {} /\ ~ENABLED Step(q)

\* C33: deadlock freedom: no two calls running concurrently (stop_tunnel
\* with delete_tunnel, disconnect_ssh with either, any other pair) are ever
\* both waiting for a guard that the other holds.
DeadlockFree == \A p, q \in Procs : ~WaitOnEachOther(p, q)


\* The accept-loop task of worker w has not ended.
AcceptAlive(w) == tasks[w].accept # "stopped"

\* The handle of worker w is stored in active_tunnels under the id of its
\* tunnel, or the call that spawned it is about to store it.
Owned(w) ==
    \/ /\ Has(active_tunnels, tasks[w].tunnel)
       /\ active_tunnels[tasks[w].tunnel].handle = w
    \/ \E p \in Tasks : pc[p] = "st_active" /\ loc[p].handle = w

\* C34: every worker whose accept loop is alive is owned by active_tunnels,
\* no tunnel has two of them, and the session it runs on is the one
\* ssh_sessions holds for its connection, also when connect_ssh is called
\* for a connection that is Connected already.
WorkersOwned ==
    \A w \in DOMAIN tasks :
        AcceptAlive(w) =>
          /\ Owned(w)
          /\ Has(ssh_sessions, tasks[w].connection_id)
          /\ ssh_sessions[tasks[w].connection_id] = tasks[w].session
          /\ \A v \in DOMAIN tasks :
               (AcceptAlive(v) /\ tasks[v].tunnel = tasks[w].tunnel) => v = w


\* No command and no pass of the health monitor is under way.
Quiescent == \A p \in Tasks : Quiet(p)

\* C35: in every quiescent state a connection has status Connected exactly
\* when ssh_sessions holds a session for it, and every session of
\* ssh_sessions is stored under the id of a connection of the catalog.
QuiescentSessions ==
    Quiescent =>
      /\ \A c \in DOMAIN connections :
           connections[c].status = Connected <=> Has(ssh_sessions, c)
      /\ \A c \in DOMAIN ssh_sessions : Has(connections, c)

\* C36: in every quiescent state a tunnel has status Active exactly when
\* active_tunnels holds an entry for it whose worker's accept loop is still
\* running.
QuiescentTunnels ==
    Quiescent =>
      \A t \in DOMAIN tunnels :
        tunnels[t].status = Active <=>
          /\ Has(active_tunnels, t)
          /\ Has(tasks, active_tunnels[t].handle)
          /\ AcceptAlive(active_tunnels[t].handle)


\* C37: a connect_ssh call in progress always has a step to take, whatever
\* the peer does, so it returns; and when it returns the connection, if it
\* is still in the catalog, has status Connected or Error.
ConnectReturns ==
    [][\A p \in Procs :
         /\ (call[p].op = "connect_ssh" /\ ~Quiet(p)) => ENABLED Step(p)
         /\ (Returns(p, "connect_ssh") /\ Has(connections', call[p].id))
              => connections'[call[p].id].status \in {Connected, ConnError}]_vars


\* C38: when connect_ssh returns after one tunnel failed to start (its bind
\* or its forward-listen), the connection is Connected with its session and
\* every other tunnel of the connection is Active and has an ActiveTunnel:
\* at most the one that failed is not started.
OneFailureStartsOthers ==
    [][\A p \in Procs :
         (/\ Returns(p, "connect_ssh")
          /\ call'[p].result.success
          /\ ~loc[p].started
          /\ Has(connections', call[p].id))
         => /\ connections'[call[p].id].status = Connected
            /\ Has(ssh_sessions', call[p].id)
            /\ Cardinality({t \in DOMAIN TunnelsOf(tunnels', call[p].id) :
                              ~(tunnels'[t].status = Active /\ Has(active_tunnels', t))}) <= 1]_vars


\* C39. Catalog saves and settings saves keep each other's updates: a
\* save_settings that puts its document in data.json leaves the connections
\* and the tunnels data.json held as they were, and a
\* save_connections_and_tunnels that does so leaves the settings as they
\* were, also while a save of the other kind is running; so once both have
\* returned the file holds the latest catalog and the latest settings.
\* Only the rename of a temp file that holds the whole document of the save
\* itself over a whole data.json is looked at: what the shared temp file
\* adds is C40.
SavesKeepEachOther ==
    [][\A p \in Procs :
         ((fs.data.exists => fs.data.complete) /\ fs.tmp = Written(loc[p].data)) =>
           /\ Steps(p, "save_settings") =>
                /\ Persisted(fs').connections = Persisted(fs).connections
                /\ Persisted(fs').tunnels = Persisted(fs).tunnels
           /\ Steps(p, "save_connections_and_tunnels") =>
                Persisted(fs').settings = Persisted(fs).settings]_vars


\* C40. Two saves running at the same time do not get in each other's way
\* through the temp file and the backup file they share: after every step
\* data.json, when it exists, holds one whole document, the one a save in
\* progress was given when the step changed it; and every save returns Ok
\* (the file system reports no fault in this specification).
SavesApart ==
    [][/\ fs'.data.exists => fs'.data.complete
       /\ fs'.data # fs.data => \E p \in Procs : fs'.data = Written(loc[p].data)
       /\ \A p \in Procs :
            (pc[p] # "done" /\ pc'[p] = "done") => call'[p].result = Ok]_vars

==========================================================================
